---- MODULE Spec2Model ----
(***************************************************************************)
(* Model of the suremark-bot command line agent: the tweet, batch, stats   *)
(* and search commands (src/src/database.ts, second half), the store       *)
(* PostDatabase                                                            *)
(* (src/src/database.ts, first half), the PostProcessor                    *)
(* (src/src/post-processor.ts) and the XAPIClient with the configuration   *)
(* (src/unnamed/part_000).                                                 *)
(*                                                                         *)
(* Every CLI invocation is a process; two of them may run at once against  *)
(* the same MongoDB collection.  Each await of the command handlers is one *)
(* step, so the store operations and posting-client calls of the two       *)
(* processes interleave (Spec).  The functions of the PostProcessor and    *)
(* XAPIClient.postTweet are also called one at a time on wider sets of     *)
(* arguments (ProcessorSpec).                                              *)
(***************************************************************************)
EXTENDS Integers, Sequences, FiniteSets, TLC

VARIABLES store, remote, reported, runs, proc, call, db

vars == <<store, remote, reported, runs, proc, call, db>>

(***************************************************************************)
(* Bounds of the model.                                                    *)
(***************************************************************************)
MaxRuns == 2

MaxBatchLen == 2

(* The CLI invocations that may run at once.  Either command runs in p1; the *)
(* invocation running beside it, in p2, is a tweet command.                  *)
Procs == {"p1", "p2"}

BatchProcs == {"p1"}

(***************************************************************************)
(* Text.  A string of the program is a sequence of one-character strings   *)
(* where the code looks inside it (host names), and a sequence of tokens   *)
(* where the code only replaces placeholders and takes the length.         *)
(***************************************************************************)
TwitterCom == <<"t", "w", "i", "t", "t", "e", "r", ".", "c", "o", "m">>

XCom == <<"x", ".", "c", "o", "m">>

InstagramCom == <<"i", "n", "s", "t", "a", "g", "r", "a", "m", ".", "c", "o", "m">>

YoutubeCom == <<"y", "o", "u", "t", "u", "b", "e", ".", "c", "o", "m">>

YoutuBe == <<"y", "o", "u", "t", "u", ".", "b", "e">>

(* Faulty variant: the short YouTube domain carries a tag that has no template. *)
SUPPORTED_PLATFORMS_ShortTag ==
    << [domain |-> TwitterCom, platform |-> "twitter"],
       [domain |-> XCom, platform |-> "twitter"],
       [domain |-> InstagramCom, platform |-> "instagram"],
       [domain |-> YoutubeCom, platform |-> "youtube"],
       [domain |-> YoutuBe, platform |-> "video"] >>

SUPPORTED_PLATFORMS ==
    << [domain |-> TwitterCom, platform |-> "twitter"],
       [domain |-> XCom, platform |-> "twitter"],
       [domain |-> InstagramCom, platform |-> "instagram"],
       [domain |-> YoutubeCom, platform |-> "youtube"],
       [domain |-> YoutuBe, platform |-> "youtube"] >>

(* Faulty variant: the host is compared with the domain for equality. *)
HostEquals(s, d) == s = d

(* String.prototype.includes on character sequences. *)
Includes(s, d) ==
    \E i \in 0..(Len(s) - Len(d)) : SubSeq(s, i + 1, i + Len(d)) = d

(***************************************************************************)
(* URLs given on the command line or in the batch file, and what           *)
(* "new URL(url)" makes of each: ok is false when the constructor throws;  *)
(* hostname is lower-cased by the parser; pathParts is pathname.split("/").*)
(***************************************************************************)
UrlX == "https://x.com/user/status/42"

UrlSite == "https://a.io/post"

UrlBad == "not a url"

Urls == {UrlX, UrlSite, UrlBad}

(* Further URLs, given to the PostProcessor's functions one at a time. *)
UrlTwitter == "https://twitter.com/user/status/7"

UrlXNoStatus == "https://x.com/user"

UrlInstagram == "https://www.instagram.com/p/1"

UrlYoutube == "https://www.youtube.com/watch?v=1"

UrlYoutuBe == "https://youtu.be/1"

UrlDropbox == "https://www.dropbox.com/s/1"

UrlBoth == "https://instagram.com.x.com/p/1"

UrlYoutubeUpper == "https://YouTube.COM/watch?v=1"

UrlExample == "https://x.example/user/status/42"

UrlStatusLast == "https://x.com/user/status"

UrlStatusEmpty == "https://x.com/user/status/"

ProcessorUrls ==
    Urls \cup {UrlTwitter, UrlXNoStatus, UrlInstagram, UrlYoutube, UrlYoutuBe, UrlDropbox,
               UrlBoth, UrlYoutubeUpper, UrlExample, UrlStatusLast, UrlStatusEmpty}

Chars(host) ==
    CASE host = "x.com" -> XCom
      [] host = "a.io" -> <<"a", ".", "i", "o">>
      [] host = "twitter.com" -> TwitterCom
      [] host = "www.instagram.com" -> <<"w", "w", "w", ".">> \o InstagramCom
      [] host = "www.youtube.com" -> <<"w", "w", "w", ".">> \o YoutubeCom
      [] host = "youtu.be" -> YoutuBe
      [] host = "www.dropbox.com" -> <<"w", "w", "w", ".", "d", "r", "o", "p", "b", "o">> \o XCom
      [] host = "instagram.com.x.com" -> InstagramCom \o <<".">> \o XCom
      [] host = "YouTube.COM" ->
            <<"Y", "o", "u", "T", "u", "b", "e", ".", "C", "O", "M">>
      [] host = "x.example" -> <<"x", ".", "e", "x", "a", "m", "p", "l", "e">>
      [] OTHER -> <<>>

UpperCase == <<"Y", "T", "C", "O", "M">>

LowerCase == <<"y", "t", "c", "o", "m">>

(* String.prototype.toLowerCase on character sequences. *)
ToLowerCase(s) ==
    [i \in 1..Len(s) |->
        IF \E k \in 1..Len(UpperCase) : UpperCase[k] = s[i]
        THEN LowerCase[CHOOSE k \in 1..Len(UpperCase) : UpperCase[k] = s[i]]
        ELSE s[i]]

(* The URL parser gives the host of a special scheme in lower case. *)
ParseUrl(url) ==
    CASE url = UrlX -> [ok |-> TRUE, hostname |-> Chars("x.com"), pathParts |-> <<"", "user", "status", "42">>]
      [] url = UrlSite -> [ok |-> TRUE, hostname |-> Chars("a.io"), pathParts |-> <<"", "post">>]
      [] url = UrlTwitter ->
            [ok |-> TRUE, hostname |-> Chars("twitter.com"), pathParts |-> <<"", "user", "status", "7">>]
      [] url = UrlXNoStatus -> [ok |-> TRUE, hostname |-> Chars("x.com"), pathParts |-> <<"", "user">>]
      [] url = UrlInstagram ->
            [ok |-> TRUE, hostname |-> Chars("www.instagram.com"), pathParts |-> <<"", "p", "1">>]
      [] url = UrlYoutube ->
            [ok |-> TRUE, hostname |-> Chars("www.youtube.com"), pathParts |-> <<"", "watch">>]
      [] url = UrlYoutuBe -> [ok |-> TRUE, hostname |-> Chars("youtu.be"), pathParts |-> <<"", "1">>]
      [] url = UrlDropbox ->
            [ok |-> TRUE, hostname |-> Chars("www.dropbox.com"), pathParts |-> <<"", "s", "1">>]
      [] url = UrlBoth ->
            [ok |-> TRUE, hostname |-> Chars("instagram.com.x.com"), pathParts |-> <<"", "p", "1">>]
      [] url = UrlYoutubeUpper ->
            [ok |-> TRUE, hostname |-> ToLowerCase(Chars("YouTube.COM")), pathParts |-> <<"", "watch">>]
      [] url = UrlExample ->
            [ok |-> TRUE, hostname |-> Chars("x.example"), pathParts |-> <<"", "user", "status", "42">>]
      [] url = UrlStatusLast ->
            [ok |-> TRUE, hostname |-> Chars("x.com"), pathParts |-> <<"", "user", "status">>]
      [] url = UrlStatusEmpty ->
            [ok |-> TRUE, hostname |-> Chars("x.com"), pathParts |-> <<"", "user", "status", "">>]
      [] OTHER -> [ok |-> FALSE, hostname |-> <<>>, pathParts |-> <<>>]

isValidUrl(url) == ParseUrl(url).ok

RECURSIVE FirstMatch(_, _)
FirstMatch(hostname, i) ==
    IF i > Len(SUPPORTED_PLATFORMS) THEN "website"
    ELSE IF Includes(hostname, SUPPORTED_PLATFORMS[i].domain)
         THEN SUPPORTED_PLATFORMS[i].platform
         ELSE FirstMatch(hostname, i + 1)

detectPlatform(url) == FirstMatch(ToLowerCase(ParseUrl(url).hostname), 1)


(***************************************************************************)
(* Content extraction (PostProcessor.extractContent and its strategies).   *)
(* The page fetch is the environment's: it fails, or returns a page.       *)
(***************************************************************************)
FetchResults == {"fails", "page"}

(* A page whose og:title and og:description are longer than the limits below. *)
LongPage == "long page"

(* The pages given to the PostProcessor's functions called one at a time. *)
ProcessorFetches == FetchResults \cup {LongPage}

MAX_CONTENT_LENGTH == 1000

DEFAULT_TITLE_LENGTH == 100

(* What the selectors find in a fetched page: the og:title and og:description      *)
(* attributes, and the part of og:title before " on Instagram".                    *)
PageOf(fetch) ==
    IF fetch = LongPage
    THEN [title |-> "og:title of 150 characters",
          description |-> "og:description of 1200 characters",
          author |-> "author of 150 characters"]
    ELSE [title |-> "og:title", description |-> "og:description", author |-> "author"]

(* Length in UTF-16 code units of a text found in a page or written by a strategy. *)
TextLen(t) ==
    CASE t = "og:title of 150 characters" -> 150
      [] t = "first 100 characters of og:title" -> 100
      [] t = "og:description of 1200 characters" -> 1200
      [] t = "first 1000 characters of og:description" -> 1000
      [] t = "author of 150 characters" -> 150
      [] t = "og:title" -> 8
      [] t = "og:description" -> 14
      [] t = "author" -> 6
      [] t = "Instagram Post by " -> 18
      [] t = "Instagram Post" -> 14
      [] t = "YouTube Video" -> 13
      [] t = "Website Content" -> 15
      [] t = "X/Twitter Post" -> 14
      [] t = "Content from Instagram" -> 22
      [] t = "Content from YouTube" -> 20
      [] t = "Content from website" -> 20
      [] t = "Verified content from X/Twitter" -> 31
      [] t = "Post from X/Twitter (ID: " -> 25
      [] t = "status" -> 6
      [] t = "42" -> 2
      [] OTHER -> 1

RECURSIVE TextLength(_)
TextLength(text) == IF text = <<>> THEN 0 ELSE TextLen(Head(text)) + TextLength(Tail(text))

(* String.prototype.substring(0, n) of a text found in a page. *)
Substring(t, n) ==
    IF TextLen(t) <= n THEN t
    ELSE CASE t = "og:title of 150 characters" /\ n = 100 -> "first 100 characters of og:title"
           [] t = "og:description of 1200 characters" /\ n = 1000 ->
                "first 1000 characters of og:description"
           [] OTHER -> t

IndexOf(seq, x) ==
    IF \E i \in 1..Len(seq) : seq[i] = x
    THEN (CHOOSE i \in 1..Len(seq) : seq[i] = x /\ \A j \in 1..(i - 1) : seq[j] # x) - 1
    ELSE -1

(* Faulty variant: the segment read is the one at statusIndex, not the one after it. *)
extractTweetIdOffByOne(url) ==
    LET pathParts == ParseUrl(url).pathParts
        statusIndex == IndexOf(pathParts, "status")
    IN  IF statusIndex # -1 /\ statusIndex < Len(pathParts)
        THEN pathParts[statusIndex + 1]
        ELSE ""

(* pathParts is 0-based in the code, 1-based here; "" stands for null. *)
extractTweetId(url) ==
    LET pathParts == ParseUrl(url).pathParts
        statusIndex == IndexOf(pathParts, "status")
    IN  IF statusIndex # -1 /\ statusIndex + 1 < Len(pathParts)
        THEN pathParts[statusIndex + 2]
        ELSE ""

(* An extraction result: title and content are texts (sequences of pieces); thrown *)
(* is true when the call ends by an exception instead of returning; timestamp is   *)
(* "now" for new Date().                                                           *)
Extracted(title, content) ==
    [title |-> title, content |-> content, timestamp |-> "now", thrown |-> FALSE]

ExtractionThrown == [title |-> <<>>, content |-> <<>>, timestamp |-> "", thrown |-> TRUE]

extractTwitterContent(url) ==
    LET tweetId == extractTweetId(url)
    IN  IF tweetId # ""
        THEN Extracted(<<"X/Twitter Post">>, <<"Post from X/Twitter (ID: ", tweetId, ")">>)
        ELSE Extracted(<<"X/Twitter Post">>, <<"Verified content from X/Twitter">>)

extractInstagramContent(url, fetch) ==
    IF fetch # "fails"
    THEN Extracted(<<"Instagram Post by ", PageOf(fetch).author>>,
                   <<Substring(PageOf(fetch).description, MAX_CONTENT_LENGTH)>>)
    ELSE Extracted(<<"Instagram Post">>, <<"Content from Instagram">>)

extractYouTubeContent(url, fetch) ==
    IF fetch # "fails"
    THEN Extracted(<<Substring(PageOf(fetch).title, DEFAULT_TITLE_LENGTH)>>,
                   <<Substring(PageOf(fetch).description, MAX_CONTENT_LENGTH)>>)
    ELSE Extracted(<<"YouTube Video">>, <<"Content from YouTube">>)

(* Faulty variant: the strategy has no catch block, so a failed fetch ends the call. *)
extractWebsiteContentNoCatch(url, fetch) ==
    IF fetch # "fails"
    THEN Extracted(<<Substring(PageOf(fetch).title, DEFAULT_TITLE_LENGTH)>>,
                   <<Substring(PageOf(fetch).description, MAX_CONTENT_LENGTH)>>)
    ELSE ExtractionThrown

extractWebsiteContent(url, fetch) ==
    IF fetch # "fails"
    THEN Extracted(<<Substring(PageOf(fetch).title, DEFAULT_TITLE_LENGTH)>>,
                   <<Substring(PageOf(fetch).description, MAX_CONTENT_LENGTH)>>)
    ELSE Extracted(<<"Website Content">>, <<"Content from website">>)

extractContent(url, platform, fetch) ==
    CASE platform = "twitter" -> extractTwitterContent(url)
      [] platform = "instagram" -> extractInstagramContent(url, fetch)
      [] platform = "youtube" -> extractYouTubeContent(url, fetch)
      [] OTHER -> extractWebsiteContent(url, fetch)

(* True when the strategy chosen for the platform performs a page fetch. *)
Fetches(platform) == platform # "twitter"

NoUrl == ""

NoPostData ==
    [url |-> NoUrl, platform |-> "", title |-> <<>>, content |-> <<>>, timestamp |-> "",
     suremark_username |-> <<>>]

(* The record processUrl returns for a URL that passed isValidUrl. *)
processUrl(url, suremarkUsername, fetch) ==
    LET platform == detectPlatform(url)
        content == extractContent(url, platform, fetch)
    IN  [url |-> url, platform |-> platform, title |-> content.title,
         content |-> content.content, timestamp |-> content.timestamp,
         suremark_username |-> suremarkUsername]

(***************************************************************************)
(* Message composition (PostProcessor.generateVerificationMessage).  A     *)
(* message is a sequence of tokens; the two placeholders are tokens.       *)
(***************************************************************************)
PhUser == "@{suremark_username}"

PhUrl == "{dashboard_url}"

SURMARK_DASHBOARD_URL == "https://suremark.com/dashboard"

DefaultUsername == <<"suremark_user">>

MESSAGE_TEMPLATES_DEFAULT ==
    <<"This post is verified by ", PhUser,
      " using SureMark Digital. \nCheck the SureMark dashboard for more recent posts: ", PhUrl>>

PlatformTemplates ==
    [twitter |-> <<"This post is verified by ", PhUser,
                   " using SureMark Digital. \nCheck the SureMark dashboard for more recent posts: ", PhUrl>>,
     instagram |-> <<"(camera) This Instagram post is verified by ", PhUser,
                     " using SureMark Digital.\nCheck more verified content: ", PhUrl>>,
     youtube |-> <<"(video) This YouTube video is verified by ", PhUser,
                   " using SureMark Digital.\nCheck more verified content: ", PhUrl>>,
     website |-> <<"(globe) This content is verified by ", PhUser,
                   " using SureMark Digital.\nCheck more verified content: ", PhUrl>>,
     article |-> <<"(news) This article is verified by ", PhUser,
                   " using SureMark Digital.\nCheck more verified content: ", PhUrl>>]

(* The template literal `@${suremarkUsername}`; a user name is a sequence of tokens. *)
AtUser(username) == <<"@">> \o username

(* The replacement patterns that String.prototype.replace expands in its second   *)
(* argument, also when the pattern is a string: $$ is a dollar sign, $& the       *)
(* matched text, $` the text before the match and $' the text after it.  A text   *)
(* is divided into tokens so that each placeholder and each pattern is one token. *)
RECURSIVE Expand(_, _, _, _)
Expand(text, before, match, after) ==
    IF text = <<>> THEN <<>>
    ELSE (CASE Head(text) = "$$" -> <<"$">>
            [] Head(text) = "$&" -> <<match>>
            [] Head(text) = "$`" -> before
            [] Head(text) = "$'" -> after
            [] OTHER -> <<Head(text)>>)
         \o Expand(Tail(text), before, match, after)

(* String.prototype.replace with a string pattern: the first occurrence only. *)
ReplaceFirst(msg, ph, text) ==
    LET i == IndexOf(msg, ph)
        before == SubSeq(msg, 1, i)
        after == SubSeq(msg, i + 2, Len(msg))
    IN  IF i = -1 THEN msg ELSE before \o Expand(text, before, ph, after) \o after

(* Faulty variant: the second replace call is missing. *)
generateVerificationMessageHandleOnly(platform, suremarkUsername, dashboardUrl, customMessage) ==
    IF customMessage # <<>>
    THEN ReplaceFirst(customMessage, PhUser, AtUser(suremarkUsername))
    ELSE LET template == IF platform \in DOMAIN PlatformTemplates
                         THEN PlatformTemplates[platform]
                         ELSE MESSAGE_TEMPLATES_DEFAULT
         IN  ReplaceFirst(template, PhUser, AtUser(suremarkUsername))

generateVerificationMessage(platform, suremarkUsername, dashboardUrl, customMessage) ==
    IF customMessage # <<>>
    THEN ReplaceFirst(ReplaceFirst(customMessage, PhUser, AtUser(suremarkUsername)), PhUrl, dashboardUrl)
    ELSE LET template == IF platform \in DOMAIN PlatformTemplates
                         THEN PlatformTemplates[platform]
                         ELSE MESSAGE_TEMPLATES_DEFAULT
         IN  ReplaceFirst(ReplaceFirst(template, PhUser, AtUser(suremarkUsername)), PhUrl, dashboardUrl)

(* Length in UTF-16 code units of each token. *)
TokenLen(t) ==
    CASE t = "This post is verified by " -> 25
      [] t = " using SureMark Digital. \nCheck the SureMark dashboard for more recent posts: " -> 78
      [] t = "(camera) This Instagram post is verified by " -> 38
      [] t = "(video) This YouTube video is verified by " -> 37
      [] t = "(globe) This content is verified by " -> 31
      [] t = "(news) This article is verified by " -> 31
      [] t = " using SureMark Digital.\nCheck more verified content: " -> 54
      [] t = PhUser -> 20
      [] t = PhUrl -> 15
      [] t = SURMARK_DASHBOARD_URL -> 30
      [] t = "suremark_user" -> 13
      [] t = "alice" -> 5
      [] t = "Verified: " -> 10
      [] t = "a text of 281 characters" -> 281
      [] t = "a text of 280 characters" -> 280
      [] OTHER -> 1

RECURSIVE MsgLen(_)
MsgLen(msg) == IF msg = <<>> THEN 0 ELSE TokenLen(Head(msg)) + MsgLen(Tail(msg))

(* The --message option: absent, or one of these texts. *)
NoMessage == <<>>

LongMessage == <<"a text of 281 characters">>

Messages == {NoMessage, LongMessage}

(* The --username option: absent (the empty text), or a name. *)
Usernames == {<<>>}

(***************************************************************************)
(* The posting client (XAPIClient).                                        *)
(***************************************************************************)
MAX_TWEET_LENGTH == 280

RATE_LIMIT_RETRY_AFTER == 900

(* What client.v2.tweet does: returns data, returns none, or throws. *)
RemoteOutcomes == {"data", "nodata", "429", "error"}

CredentialConfigs == { <<"key", "secret", "token", "tokensecret">>, <<"key", "secret", "token", "">> }

validateCredentials(cfg) == \A i \in 1..Len(cfg) : cfg[i] # ""

NoResult == [success |-> FALSE, tweet_id |-> 0, tweet_url |-> <<>>, error |-> "", retry_after |-> 0]

TweetUrl(tweetId) == <<"https://twitter.com/user/status/", tweetId>>

(* What client.v2.tweet throws for each outcome that is not a response with data:   *)
(* the error's code and message.  "nodata" is the Error that postTweet itself       *)
(* throws inside its try block, which has no code (0 here).                         *)
RemoteError(outcome) ==
    CASE outcome = "429" -> [code |-> 429, message |-> "Too Many Requests"]
      [] outcome = "403" -> [code |-> 403, message |-> "Forbidden"]
      [] outcome = "nodata" -> [code |-> 0, message |-> "No response data received from X API"]
      [] OTHER -> [code |-> 500, message |-> "remote message"]

(* The template literal `X API error: ${error.message}`. *)
XApiError(message) ==
    CASE message = "Too Many Requests" -> "X API error: Too Many Requests"
      [] message = "Forbidden" -> "X API error: Forbidden"
      [] message = "No response data received from X API" ->
            "X API error: No response data received from X API"
      [] OTHER -> "X API error: remote message"

(* Faulty variant: the remote call is made before the length is looked at. *)
CallsRemoteAlways(message) == TRUE

(* True when postTweet gets as far as the remote call. *)
CallsRemote(message) == ~(MsgLen(message) > MAX_TWEET_LENGTH)

(* Faulty variant: the catch block does not tell code 429 from the other errors. *)
postTweetNoRateLimit(message, outcome, tweetId) ==
    IF MsgLen(message) > MAX_TWEET_LENGTH
    THEN [NoResult EXCEPT !.error = "TWEET_TOO_LONG"]
    ELSE IF outcome = "data"
         THEN [NoResult EXCEPT !.success = TRUE, !.tweet_id = tweetId, !.tweet_url = TweetUrl(tweetId)]
         ELSE [NoResult EXCEPT !.error = XApiError(RemoteError(outcome).message)]

postTweet(message, outcome, tweetId) ==
    IF MsgLen(message) > MAX_TWEET_LENGTH
    THEN [NoResult EXCEPT !.error = "TWEET_TOO_LONG"]
    ELSE IF outcome = "data"
         THEN [NoResult EXCEPT !.success = TRUE, !.tweet_id = tweetId, !.tweet_url = TweetUrl(tweetId)]
         ELSE LET error == RemoteError(outcome)
              IN  IF error.code = 429
                  THEN [NoResult EXCEPT !.error = "RATE_LIMIT", !.retry_after = RATE_LIMIT_RETRY_AFTER]
                  ELSE [NoResult EXCEPT !.error = XApiError(error.message)]


(***************************************************************************)
(* The store (PostDatabase).  The collection is a set of documents; the    *)
(* unique index on url that initialize creates is what insertOne checks.   *)
(***************************************************************************)
DUPLICATE_KEY == 11000

(* What the driver does to an insertOne besides the index check: nothing (0), or *)
(* it raises an error other than duplicate-key (6, HostUnreachable).            *)
InsertFaults == {0, 6}

NoTweet == [id |-> 0, url |-> <<>>]

(* Faulty variant: the document is written with replaceOne and upsert. *)
insertOneReplaces(coll, doc, fault) ==
    IF fault # 0 THEN [coll |-> coll, code |-> fault]
    ELSE [coll |-> {r \in coll : r.url # doc.url} \cup {doc}, code |-> 0]

(* Faulty variant: the collection has no unique index on url. *)
NoUniqueIndex(coll, doc) == FALSE

(* The unique index { url: 1 }: true when the insert would break it. *)
UniqueUrlViolated(coll, doc) == \E r \in coll : r.url = doc.url

(* collection.insertOne: the collection afterwards and the error code raised (0: none). *)
insertOne(coll, doc, fault) ==
    IF fault # 0 THEN [coll |-> coll, code |-> fault]
    ELSE IF UniqueUrlViolated(coll, doc) THEN [coll |-> coll, code |-> DUPLICATE_KEY]
    ELSE [coll |-> coll \cup {doc}, code |-> 0]

(* Faulty variant: the query filters on url alone. *)
FindAnyRecord(coll, url) == {r \in coll : r.url = url}

(* collection.findOne({ url, success: { $eq: true } }) *)
FindSuccessful(coll, url) == {r \in coll : r.url = url /\ r.success = TRUE}

(* findFails: the query raises; the catch block logs and returns false. *)
isPostProcessed(coll, url, findFails) ==
    IF findFails THEN FALSE ELSE FindSuccessful(coll, url) # {}

(* Faulty variant: the document is marked successful whatever the caller passes. *)
ProcessedPostMarkedSuccessful(postData, success) ==
    [url |-> postData.url, platform |-> postData.platform, title |-> postData.title,
     content |-> postData.content, suremarkUsername |-> postData.suremark_username,
     success |-> TRUE, tweet |-> NoTweet]

ProcessedPost(postData, success) ==
    [url |-> postData.url, platform |-> postData.platform, title |-> postData.title,
     content |-> postData.content, suremarkUsername |-> postData.suremark_username,
     success |-> success, tweet |-> NoTweet]

(* Faulty variant: the duplicate-key error is rethrown like any other. *)
saveProcessedPostRethrows(coll, post, fault) ==
    LET res == insertOne(coll, post, fault)
    IN  [coll |-> res.coll, thrown |-> res.code]

(* The collection afterwards and the error code thrown to the caller (0: returns). *)
saveProcessedPost(coll, post, fault) ==
    LET res == insertOne(coll, post, fault)
    IN  IF res.code = 0 THEN [coll |-> res.coll, thrown |-> 0]
        ELSE IF res.code = DUPLICATE_KEY THEN [coll |-> res.coll, thrown |-> 0]
        ELSE [coll |-> res.coll, thrown |-> res.code]

(* Faulty variant: on the duplicate-key error the existing document is updated. *)
saveSuccessfulPostUpdatesOnDuplicate(coll, post, tweetId, tweetUrl, fault) ==
    LET document == [post EXCEPT !.success = TRUE, !.tweet = [id |-> tweetId, url |-> tweetUrl]]
        res == insertOne(coll, document, fault)
    IN  IF res.code = 0 THEN [coll |-> res.coll, thrown |-> 0]
        ELSE IF res.code = DUPLICATE_KEY
             THEN [coll |-> {r \in coll : r.url # post.url} \cup {document}, thrown |-> 0]
             ELSE [coll |-> res.coll, thrown |-> res.code]

(* Faulty variant: the catch block swallows every error, not only duplicate-key. *)
saveSuccessfulPostSwallowsAll(coll, post, tweetId, tweetUrl, fault) ==
    LET document == [post EXCEPT !.success = TRUE, !.tweet = [id |-> tweetId, url |-> tweetUrl]]
        res == insertOne(coll, document, fault)
    IN  [coll |-> res.coll, thrown |-> 0]

saveSuccessfulPost(coll, post, tweetId, tweetUrl, fault) ==
    LET document == [post EXCEPT !.success = TRUE, !.tweet = [id |-> tweetId, url |-> tweetUrl]]
        res == insertOne(coll, document, fault)
    IN  IF res.code = 0 THEN [coll |-> res.coll, thrown |-> 0]
        ELSE IF res.code = DUPLICATE_KEY THEN [coll |-> res.coll, thrown |-> 0]
        ELSE [coll |-> res.coll, thrown |-> res.code]

(* collection.countDocuments() and its two filtered forms in getStatistics. *)
CountAll(coll) == Cardinality(coll)

CountSuccessful(coll) == Cardinality({r \in coll : r.success = TRUE})

(* Faulty variant: the filter of the third count is the filter of the second. *)
CountFailedSameFilter(coll) == Cardinality({r \in coll : r.success = TRUE})

CountFailed(coll) == Cardinality({r \in coll : r.success = FALSE})

(* What getStatistics returns from its catch block. *)
NoStats == [total |-> 0, successful |-> 0, failed |-> 0, caught |-> FALSE]

(* { $regex: query, $options: "i" } on a text, for the texts the extractors write. *)
RegexMatches(text, query) ==
    \E i \in 1..Len(text) :
        /\ query = "twitter"
        /\ text[i] \in {"X/Twitter Post", "Post from X/Twitter (ID: ", "Verified content from X/Twitter"}

(* collection.find({ $or: [title, content, author] }): the documents found.  No   *)
(* document has an author: no extractor result that is saved carries one.          *)
searchPosts(coll, query, findFails) ==
    IF findFails THEN {}
    ELSE {r \in coll : RegexMatches(r.title, query) \/ RegexMatches(r.content, query)}

(***************************************************************************)
(* The state of one CLI invocation.                                        *)
(*   cmd, urls, dryRun, message, username: the command and its options     *)
(*   pc: the await the handler is at;  connected: collection is not null   *)
(*   idx, processed, skipped, failed: the batch loop and its counters      *)
(*   postData, result: the handler's locals, gone when their block is left *)
(*   exit: the exit code (-1 while running);  error: the message reported  *)
(* and, for the URL being processed (cur), what has been done for it:      *)
(*   outcome: the terminal outcome of process(cur), "none" until then      *)
(*   checked: a store query was made for cur                               *)
(*   fetched: the extractor was run with a page fetch for cur              *)
(*   composed: the message was composed;  postCalls: calls of postTweet    *)
(*   remoteCalls: calls of client.v2.tweet made by those calls             *)
(*   tweetId: the identifier the posting client returned (0: none)         *)
(*   tried: the insert attempted ("none", "dry", "success")                *)
(*   wrote: the collection changed;  printed: the message printed          *)
(*   afterPosted: a live run had reported cur as posted before the check   *)
(*   findError: the store query just made for cur raised an error (known   *)
(*          until the handler takes its next step)                         *)
(*   raced: when cur passed the check, another invocation had passed the   *)
(*          check for the same URL in a live run and had not yet inserted  *)
(* and, for a batch run, outcomes: the outcomes of the items the loop has  *)
(* left, in the order in which it left them;                               *)
(* and, for the invocation: configured and verified, what                  *)
(* validateCredentials() and verifyCredentials() returned (false until     *)
(* they are asked);                                                        *)
(* and, for a stats or search run: stats, the three figures getStatistics  *)
(* has counted so far (caught: it returned from its catch block); quiet,   *)
(* no count was made of a collection other than the one of the first       *)
(* count; failedBefore, the post attempts that had failed in the other     *)
(* invocations when this one started; query and found, the search text and *)
(* the URLs of the documents found.                                        *)
(***************************************************************************)
IdleProc ==
    [cmd |-> "none", urls |-> <<>>, dryRun |-> FALSE, message |-> <<>>, username |-> <<>>,
     pc |-> "idle", connected |-> FALSE, idx |-> 0, processed |-> 0, skipped |-> 0,
     failed |-> 0, postData |-> NoPostData, result |-> NoResult, exit |-> -1, error |-> "",
     cur |-> NoUrl, outcome |-> "none", checked |-> FALSE, fetched |-> FALSE,
     composed |-> FALSE, postCalls |-> 0, tried |-> "none", wrote |-> FALSE,
     tweetId |-> 0, printed |-> <<>>, afterPosted |-> FALSE, findError |-> FALSE,
     raced |-> FALSE, outcomes |-> <<>>, remoteCalls |-> 0, configured |-> FALSE,
     verified |-> FALSE, stats |-> NoStats, quiet |-> TRUE, failedBefore |-> 0,
     query |-> "", found |-> {}, timer |-> 0]

(* The item-level fields as they are when the handler turns to url. *)
NewItem(r, url) ==
    [r EXCEPT !.cur = url, !.outcome = "none", !.checked = FALSE, !.fetched = FALSE,
              !.composed = FALSE, !.postCalls = 0, !.tried = "none", !.wrote = FALSE,
              !.tweetId = 0, !.printed = <<>>, !.afterPosted = FALSE,
              !.findError = FALSE, !.raced = FALSE, !.remoteCalls = 0,
              !.postData = NoPostData, !.result = NoResult]

(* process.exit(code) from the handler, with the item's outcome and the message shown. *)
Exit(r, code, outcome, error) ==
    [r EXCEPT !.pc = "done", !.exit = code, !.outcome = outcome, !.error = error,
              !.postData = NoPostData, !.result = NoResult]

(* The outcome of process(url) when a save throws the error with this code. *)
ThrownOutcome(code) == IF code = DUPLICATE_KEY THEN "DuplicateKeyError" ELSE "StoreError"

Message(r) ==
    generateVerificationMessage(
        r.postData.platform,
        IF r.postData.suremark_username # <<>> THEN r.postData.suremark_username ELSE DefaultUsername,
        <<SURMARK_DASHBOARD_URL>>,
        r.message)

(* The lists of URLs a batch file can hold after the blank and # lines are dropped. *)
(* A list of three: a well-formed URL, a malformed one, a well-formed one. *)
IsolationList == <<UrlX, UrlBad, UrlSite>>

BatchFiles == UNION { [1..n -> Urls] : n \in 0..MaxBatchLen } \cup {IsolationList}

(* What the invocations that ran before, and have exited, left in the collection: *)
(* nothing, or the document of a dry run of UrlX.                                 *)
EarlierStores == { {}, {ProcessedPost(processUrl(UrlX, <<>>, "page"), FALSE)} }

NoCall == [fn |-> "none"]

(* The fields of a PostDatabase object as its declaration leaves them: client and  *)
(* collection are null (FALSE).  The field db follows client and is left out.  pc  *)
(* is the await that initialize() is at ("idle": none); completed tells that the   *)
(* last initialize() has resolved and close() has not nulled the fields since.     *)
NoDb == [client |-> FALSE, collection |-> FALSE, pc |-> "idle", completed |-> FALSE]

Init ==
    /\ store \in EarlierStores
    /\ call = NoCall
    /\ remote = <<>>
    /\ reported = [u \in Urls |-> 0]
    /\ runs = 0
    /\ proc = [p \in Procs |-> IdleProc]
    /\ db = NoDb


Set(p, r) == proc' = [proc EXCEPT ![p] = r]

(* Another invocation is between its idempotency check and its insert for url, live. *)
InWindow(p, url) ==
    \E q \in Procs \ {p} :
        /\ proc[q].cur = url /\ ~proc[q].dryRun
        /\ proc[q].pc \in {"extract", "post", "saveSuccess"}

CanStart(p) == proc[p].pc \in {"idle", "done"} /\ runs < MaxRuns

(***************************************************************************)
(* The tweet command.                                                      *)
(***************************************************************************)
(* The options are parsed and XAPIClient.validateCredentials() is asked. *)
TweetStart(p) ==
    /\ CanStart(p)
    /\ \E url \in Urls, dry \in BOOLEAN, msg \in Messages, user \in Usernames, cfg \in CredentialConfigs :
          LET r == [IdleProc EXCEPT !.cmd = "tweet", !.urls = <<url>>, !.dryRun = dry,
                                    !.message = msg, !.username = user,
                                    !.configured = validateCredentials(cfg)]
          IN  IF ~validateCredentials(cfg)
              THEN Set(p, Exit(r, 1, "none", "MISSING_CREDENTIALS"))
              ELSE Set(p, [r EXCEPT !.pc = "init"])
    /\ runs' = runs + 1
    /\ UNCHANGED <<store, remote, reported, call, db>>

(* await database.initialize(): the connection may fail, and the error is rethrown. *)
TweetInitialize(p) ==
    /\ proc[p].cmd = "tweet" /\ proc[p].pc = "init"
    /\ \E ok \in BOOLEAN :
          IF ok
          THEN Set(p, [proc[p] EXCEPT !.connected = TRUE, !.pc = "verify"])
          ELSE Set(p, Exit(proc[p], 1, "none", "Error: connect"))
    /\ UNCHANGED <<store, remote, reported, runs, call, db>>

(* Faulty variant: the result of verifyCredentials() is not looked at. *)
TweetVerifyIgnored(p) ==
    /\ proc[p].cmd = "tweet" /\ proc[p].pc = "verify"
    /\ \E credentialsValid \in BOOLEAN :
          Set(p, [proc[p] EXCEPT !.verified = credentialsValid, !.pc = "check"])
    /\ UNCHANGED <<store, remote, reported, runs, call, db>>

(* await xClient.verifyCredentials() *)
TweetVerify(p) ==
    /\ proc[p].cmd = "tweet" /\ proc[p].pc = "verify"
    /\ \E credentialsValid \in BOOLEAN :
          IF ~credentialsValid
          THEN Set(p, Exit(proc[p], 1, "none", "API_ERROR"))
          ELSE Set(p, [proc[p] EXCEPT !.verified = TRUE, !.pc = "check"])
    /\ UNCHANGED <<store, remote, reported, runs, call, db>>

(* await database.isPostProcessed(options.url) *)
TweetCheck(p) ==
    /\ proc[p].cmd = "tweet" /\ proc[p].pc = "check"
    /\ \E findFails \in BOOLEAN :
          LET url == proc[p].urls[1]
              r == [NewItem(proc[p], url) EXCEPT !.checked = TRUE, !.afterPosted = reported[url] > 0,
                                                 !.findError = findFails,
                                                 !.raced = InWindow(p, url) /\ ~proc[p].dryRun]
              isProcessed == isPostProcessed(store, url, findFails)
          IN  IF isProcessed
              THEN Set(p, Exit(r, 1, "AlreadyProcessed", "DUPLICATE_POST"))
              ELSE Set(p, [r EXCEPT !.pc = "extract"])
    /\ UNCHANGED <<store, remote, reported, runs, call, db>>

(* Faulty variant: the composed message is measured before the dry-run branch. *)
TweetProcessUrlChecksLength(p) ==
    /\ proc[p].cmd = "tweet" /\ proc[p].pc = "extract"
    /\ \E fetch \in FetchResults :
          LET r == [proc[p] EXCEPT !.findError = FALSE] IN
          IF ~isValidUrl(r.cur)
          THEN Set(p, Exit(r, 1, "InputRejected", "INVALID_URL"))
          ELSE LET postData == processUrl(r.cur, r.username, fetch)
                   r1 == [r EXCEPT !.postData = postData, !.fetched = Fetches(postData.platform)]
               IN  IF postData.platform = "" \/ postData.url = NoUrl
                   THEN Set(p, Exit(r1, 1, "ExtractionIncomplete",
                                    "Failed to extract required platform or URL information"))
                   ELSE IF MsgLen(Message(r1)) > MAX_TWEET_LENGTH
                        THEN Set(p, Exit([r1 EXCEPT !.composed = TRUE], 1, "PostFailed", "TWEET_TOO_LONG"))
                        ELSE Set(p, [r1 EXCEPT !.composed = TRUE,
                                               !.pc = IF r.dryRun THEN "saveDry" ELSE "post"])
    /\ UNCHANGED <<store, remote, reported, runs, call, db>>

(* await postProcessor.processUrl(...), the required-data check and the composition. *)
TweetProcessUrl(p) ==
    /\ proc[p].cmd = "tweet" /\ proc[p].pc = "extract"
    /\ \E fetch \in FetchResults :
          LET r == [proc[p] EXCEPT !.findError = FALSE] IN
          IF ~isValidUrl(r.cur)
          THEN Set(p, Exit(r, 1, "InputRejected", "INVALID_URL"))
          ELSE LET postData == processUrl(r.cur, r.username, fetch)
                   r1 == [r EXCEPT !.postData = postData, !.fetched = Fetches(postData.platform)]
               IN  IF postData.platform = "" \/ postData.url = NoUrl
                   THEN Set(p, Exit(r1, 1, "ExtractionIncomplete",
                                    "Failed to extract required platform or URL information"))
                   ELSE Set(p, [r1 EXCEPT !.composed = TRUE,
                                          !.pc = IF r.dryRun THEN "saveDry" ELSE "post"])
    /\ UNCHANGED <<store, remote, reported, runs, call, db>>

(* Dry run: await database.saveProcessedPost({..., success: false}), then the report. *)
TweetSaveDry(p) ==
    /\ proc[p].cmd = "tweet" /\ proc[p].pc = "saveDry"
    /\ \E fault \in InsertFaults :
          LET r == proc[p]
              saved == saveProcessedPost(store, ProcessedPost(r.postData, FALSE), fault)
              r1 == [r EXCEPT !.tried = "dry", !.wrote = (saved.coll # store)]
          IN  /\ store' = saved.coll
              /\ IF saved.thrown # 0
                 THEN Set(p, Exit(r1, 1, ThrownOutcome(saved.thrown), "Error: store"))
                 ELSE Set(p, [r1 EXCEPT !.outcome = "DryRunRecorded", !.printed = Message(r),
                                        !.pc = "close"])
    /\ UNCHANGED <<remote, reported, runs, call, db>>

(* Faulty variant: the failed attempt is saved with the result's (absent) tweet reference. *)
TweetPostFailedSavesSuccess(coll, r, result) ==
    [coll |-> saveSuccessfulPost(coll, ProcessedPost(r.postData, FALSE),
                                 result.tweet_id, result.tweet_url, 0).coll,
     r |-> Exit(r, 1, "PostFailed", result.error)]

(* Faulty variant: the failed attempt is recorded with success = false. *)
TweetPostFailedRecords(coll, r, result) ==
    [coll |-> saveProcessedPost(coll, ProcessedPost(r.postData, FALSE), 0).coll,
     r |-> Exit(r, 1, "PostFailed", result.error)]

(* The else branch of "if (result.success)": the error is shown and the process exits; *)
(* the collection is not touched. *)
TweetPostFailed(coll, r, result) ==
    [coll |-> coll, r |-> Exit(r, 1, "PostFailed", result.error)]

(* Live run: await xClient.postTweet(verificationMessage) and the branch on its result. *)
TweetPost(p) ==
    /\ proc[p].cmd = "tweet" /\ proc[p].pc = "post"
    /\ \E outcome \in RemoteOutcomes :
          LET r == proc[p]
              message == Message(r)
              result == postTweet(message, outcome, Len(remote) + 1)
              r1 == [r EXCEPT !.result = result, !.postCalls = r.postCalls + 1,
                              !.remoteCalls = r.remoteCalls + (IF CallsRemote(message) THEN 1 ELSE 0),
                              !.tweetId = result.tweet_id]
              failed == TweetPostFailed(store, r1, result)
          IN  /\ remote' = IF CallsRemote(message) /\ outcome = "data"
                           THEN Append(remote, r.cur) ELSE remote
              /\ IF result.success
                 THEN /\ Set(p, [r1 EXCEPT !.pc = "saveSuccess"])
                      /\ UNCHANGED store
                 ELSE /\ Set(p, [failed.r EXCEPT !.wrote = (failed.coll # store)])
                      /\ store' = failed.coll
    /\ UNCHANGED <<reported, runs, call, db>>

(* await database.saveSuccessfulPost(..., result.tweet_id, result.tweet_url), then the report. *)
TweetSaveSuccessful(p) ==
    /\ proc[p].cmd = "tweet" /\ proc[p].pc = "saveSuccess"
    /\ \E fault \in InsertFaults :
          LET r == proc[p]
              saved == saveSuccessfulPost(store, ProcessedPost(r.postData, FALSE),
                                          r.result.tweet_id, r.result.tweet_url, fault)
              r1 == [r EXCEPT !.tried = "success", !.wrote = (saved.coll # store)]
          IN  /\ store' = saved.coll
              /\ IF saved.thrown # 0
                 THEN /\ Set(p, Exit(r1, 1, ThrownOutcome(saved.thrown), "Error: store"))
                      /\ UNCHANGED reported
                 ELSE /\ Set(p, [r1 EXCEPT !.outcome = "Posted", !.pc = "close"])
                      /\ reported' = [reported EXCEPT ![r.cur] = @ + 1]
    /\ UNCHANGED <<remote, runs, call, db>>

(* await database.close(); the handler returns and the process exits with code 0. *)
TweetClose(p) ==
    /\ proc[p].cmd = "tweet" /\ proc[p].pc = "close"
    /\ Set(p, [proc[p] EXCEPT !.connected = FALSE, !.pc = "done", !.exit = 0,
                               !.postData = NoPostData, !.result = NoResult])
    /\ UNCHANGED <<store, remote, reported, runs, call, db>>


(***************************************************************************)
(* The batch command.                                                      *)
(***************************************************************************)
(* The loop turns to the next URL of the list, or leaves the loop. *)
(* Faulty variant: the loop leaves before the last element of the list. *)
NextItemStopsEarly(r) ==
    [r EXCEPT !.idx = r.idx + 1, !.pc = IF r.idx + 1 < Len(r.urls) THEN "check" ELSE "finish",
              !.outcomes = Append(r.outcomes, r.outcome),
              !.postData = NoPostData, !.result = NoResult, !.timer = 0]

(* The for-of loop takes the next element of urls, or ends after the last one. *)
NextItem(r) ==
    [r EXCEPT !.idx = r.idx + 1, !.pc = IF r.idx < Len(r.urls) THEN "check" ELSE "finish",
              !.outcomes = Append(r.outcomes, r.outcome),
              !.postData = NoPostData, !.result = NoResult, !.timer = 0]

(* The --delay option of the batch command, at its default: parseInt("30"). *)
DelaySeconds == 30

(* Faulty variant: the catch block is outside the loop, so the first error ends it. *)
BatchCatchAborts(r, outcome) ==
    [r EXCEPT !.failed = r.failed + 1, !.outcome = outcome, !.pc = "finish",
              !.outcomes = Append(r.outcomes, outcome),
              !.postData = NoPostData, !.result = NoResult]

(* The catch block of the loop body: failed++, the error is logged, the loop goes on. *)
BatchCatch(r, outcome) ==
    NextItem([r EXCEPT !.failed = r.failed + 1, !.outcome = outcome])

(* Faulty variant: the timer is started but not awaited. *)
AfterLivePostNoAwait(r) == NextItem(r)

(* Faulty variant: after a rate-limit failure the loop sleeps for result.retry_after. *)
AfterLivePostBacksOff(r) ==
    IF r.processed < Len(r.urls)
    THEN [r EXCEPT !.pc = "delay",
                   !.timer = IF r.result.error = "RATE_LIMIT" THEN r.result.retry_after
                             ELSE DelaySeconds]
    ELSE NextItem(r)

(* "if (processed < urls.length)" after a live post: sleep for parseInt(options.delay) *)
(* seconds (timer: the seconds of the pending setTimeout), or go on at once.           *)
AfterLivePost(r) ==
    IF r.processed < Len(r.urls) THEN [r EXCEPT !.pc = "delay", !.timer = DelaySeconds]
    ELSE NextItem(r)

(* The options are parsed, validateCredentials() is asked and the file is read. *)
BatchStart(p) ==
    /\ CanStart(p)
    /\ p \in BatchProcs
    /\ \E urls \in BatchFiles, dry \in BOOLEAN, user \in Usernames, cfg \in CredentialConfigs :
          LET r == [IdleProc EXCEPT !.cmd = "batch", !.urls = urls, !.dryRun = dry, !.username = user,
                                    !.configured = validateCredentials(cfg)]
          IN  IF ~validateCredentials(cfg)
              THEN Set(p, Exit(r, 1, "none", "MISSING_CREDENTIALS"))
              ELSE IF Len(urls) = 0
                   THEN Set(p, Exit(r, 1, "none", "No valid URLs found in file"))
                   ELSE Set(p, [r EXCEPT !.pc = "init"])
    /\ runs' = runs + 1
    /\ UNCHANGED <<store, remote, reported, call, db>>

(* await database.initialize() *)
BatchInitialize(p) ==
    /\ proc[p].cmd = "batch" /\ proc[p].pc = "init"
    /\ \E ok \in BOOLEAN :
          IF ok
          THEN Set(p, [proc[p] EXCEPT !.connected = TRUE, !.pc = "verify"])
          ELSE Set(p, Exit(proc[p], 1, "none", "Error: connect"))
    /\ UNCHANGED <<store, remote, reported, runs, call, db>>

(* await xClient.verifyCredentials(); then the counters are set and the loop is entered. *)
BatchVerify(p) ==
    /\ proc[p].cmd = "batch" /\ proc[p].pc = "verify"
    /\ \E credentialsValid \in BOOLEAN :
          IF ~credentialsValid
          THEN Set(p, Exit(proc[p], 1, "none", "API_ERROR"))
          ELSE Set(p, [proc[p] EXCEPT !.verified = TRUE, !.pc = "check", !.idx = 1])
    /\ UNCHANGED <<store, remote, reported, runs, call, db>>

(* Faulty variant: the continue statement is missing. *)
BatchSkipFallsThrough(r) ==
    [r EXCEPT !.skipped = r.skipped + 1, !.outcome = "AlreadyProcessed", !.pc = "extract"]

(* The branch "if (isProcessed) { skipped++; continue }". *)
BatchSkip(r) ==
    NextItem([r EXCEPT !.skipped = r.skipped + 1, !.outcome = "AlreadyProcessed"])

(* await database.isPostProcessed(url) for the URL at idx. *)
BatchCheck(p) ==
    /\ proc[p].cmd = "batch" /\ proc[p].pc = "check"
    /\ \E findFails \in BOOLEAN :
          LET url == proc[p].urls[proc[p].idx]
              r == [NewItem(proc[p], url) EXCEPT !.checked = TRUE, !.afterPosted = reported[url] > 0,
                                                 !.findError = findFails,
                                                 !.raced = InWindow(p, url) /\ ~proc[p].dryRun]
              isProcessed == isPostProcessed(store, url, findFails)
          IN  IF isProcessed
              THEN Set(p, BatchSkip(r))
              ELSE Set(p, [r EXCEPT !.pc = "extract"])
    /\ UNCHANGED <<store, remote, reported, runs, call, db>>

(* await postProcessor.processUrl(...), the required-data check and the composition. *)
BatchProcessUrl(p) ==
    /\ proc[p].cmd = "batch" /\ proc[p].pc = "extract"
    /\ \E fetch \in FetchResults :
          LET r == [proc[p] EXCEPT !.findError = FALSE] IN
          IF ~isValidUrl(r.cur)
          THEN Set(p, BatchCatch(r, "InputRejected"))
          ELSE LET postData == processUrl(r.cur, r.username, fetch)
                   r1 == [r EXCEPT !.postData = postData, !.fetched = Fetches(postData.platform)]
               IN  IF postData.platform = "" \/ postData.url = NoUrl
                   THEN Set(p, BatchCatch(r1, "ExtractionIncomplete"))
                   ELSE Set(p, [r1 EXCEPT !.composed = TRUE,
                                          !.pc = IF r.dryRun THEN "saveDry" ELSE "post"])
    /\ UNCHANGED <<store, remote, reported, runs, call, db>>

(* Dry run: await database.saveProcessedPost({..., success: false}); processed++. *)
BatchSaveDry(p) ==
    /\ proc[p].cmd = "batch" /\ proc[p].pc = "saveDry"
    /\ \E fault \in InsertFaults :
          LET r == proc[p]
              saved == saveProcessedPost(store, ProcessedPost(r.postData, FALSE), fault)
              r1 == [r EXCEPT !.tried = "dry", !.wrote = (saved.coll # store)]
          IN  /\ store' = saved.coll
              /\ IF saved.thrown # 0
                 THEN Set(p, BatchCatch(r1, ThrownOutcome(saved.thrown)))
                 ELSE Set(p, NextItem([r1 EXCEPT !.outcome = "DryRunRecorded",
                                                 !.processed = r.processed + 1]))
    /\ UNCHANGED <<remote, reported, runs, call, db>>

(* Faulty variant: the failed post is logged but not counted. *)
BatchPostFailedUncounted(coll, r, result) ==
    [coll |-> coll, r |-> [r EXCEPT !.outcome = "PostFailed"]]

(* The else branch of "if (result.success)": failed++ and the error is logged; the *)
(* collection is not touched. *)
BatchPostFailed(coll, r, result) ==
    [coll |-> coll,
     r |-> [r EXCEPT !.failed = r.failed + 1, !.outcome = "PostFailed"]]

(* Live run: await xClient.postTweet(verificationMessage) and the branch on its result. *)
BatchPost(p) ==
    /\ proc[p].cmd = "batch" /\ proc[p].pc = "post"
    /\ \E outcome \in RemoteOutcomes :
          LET r == proc[p]
              message == Message(r)
              result == postTweet(message, outcome, Len(remote) + 1)
              r1 == [r EXCEPT !.result = result, !.postCalls = r.postCalls + 1,
                              !.remoteCalls = r.remoteCalls + (IF CallsRemote(message) THEN 1 ELSE 0),
                              !.tweetId = result.tweet_id]
              failed == BatchPostFailed(store, r1, result)
          IN  /\ remote' = IF CallsRemote(message) /\ outcome = "data"
                           THEN Append(remote, r.cur) ELSE remote
              /\ IF result.success
                 THEN /\ Set(p, [r1 EXCEPT !.pc = "saveSuccess"])
                      /\ UNCHANGED store
                 ELSE /\ Set(p, AfterLivePost([failed.r EXCEPT !.wrote = (failed.coll # store)]))
                      /\ store' = failed.coll
    /\ UNCHANGED <<reported, runs, call, db>>

(* await database.saveSuccessfulPost(..., result.tweet_id, result.tweet_url); processed++. *)
BatchSaveSuccessful(p) ==
    /\ proc[p].cmd = "batch" /\ proc[p].pc = "saveSuccess"
    /\ \E fault \in InsertFaults :
          LET r == proc[p]
              saved == saveSuccessfulPost(store, ProcessedPost(r.postData, FALSE),
                                          r.result.tweet_id, r.result.tweet_url, fault)
              r1 == [r EXCEPT !.tried = "success", !.wrote = (saved.coll # store)]
          IN  /\ store' = saved.coll
              /\ IF saved.thrown # 0
                 THEN /\ Set(p, BatchCatch(r1, ThrownOutcome(saved.thrown)))
                      /\ UNCHANGED reported
                 ELSE /\ Set(p, AfterLivePost([r1 EXCEPT !.outcome = "Posted",
                                                         !.processed = r.processed + 1]))
                      /\ reported' = [reported EXCEPT ![r.cur] = @ + 1]
    /\ UNCHANGED <<remote, runs, call, db>>

(* The delay between tweets has elapsed. *)
BatchDelay(p) ==
    /\ proc[p].cmd = "batch" /\ proc[p].pc = "delay"
    /\ Set(p, NextItem(proc[p]))
    /\ UNCHANGED <<store, remote, reported, runs, call, db>>

(* After the loop: the counts are printed, await database.close(), exit code 0. *)
BatchFinish(p) ==
    /\ proc[p].cmd = "batch" /\ proc[p].pc = "finish"
    /\ Set(p, [proc[p] EXCEPT !.connected = FALSE, !.pc = "done", !.exit = 0,
                               !.postData = NoPostData, !.result = NoResult])
    /\ UNCHANGED <<store, remote, reported, runs, call, db>>

(***************************************************************************)
(* The stats and search commands.  They ask for no credentials.            *)
(***************************************************************************)
StatsProcs == {"p2"}

(* The post attempts of an invocation that have ended in a failure of the posting *)
(* client or in a rejected URL.                                                   *)
FailedAttempts(r) ==
    IF r.cmd = "batch"
    THEN Cardinality({i \in 1..Len(r.outcomes) : r.outcomes[i] \in {"PostFailed", "InputRejected"}})
    ELSE IF r.cmd = "tweet" /\ r.pc = "done" /\ r.outcome \in {"PostFailed", "InputRejected"}
         THEN 1 ELSE 0

RECURSIVE FailedAttemptsOf(_)
FailedAttemptsOf(S) ==
    IF S = {} THEN 0
    ELSE LET q == CHOOSE q \in S : TRUE
         IN  FailedAttempts(proc[q]) + FailedAttemptsOf(S \ {q})

StatsStart(p) ==
    /\ CanStart(p)
    /\ p \in StatsProcs
    /\ Set(p, [IdleProc EXCEPT !.cmd = "stats", !.pc = "init",
                               !.failedBefore = FailedAttemptsOf(Procs \ {p})])
    /\ runs' = runs + 1
    /\ UNCHANGED <<store, remote, reported, call, db>>

(* await database.initialize() *)
StatsInitialize(p) ==
    /\ proc[p].cmd = "stats" /\ proc[p].pc = "init"
    /\ \E ok \in BOOLEAN :
          IF ok
          THEN Set(p, [proc[p] EXCEPT !.connected = TRUE, !.pc = "countTotal"])
          ELSE Set(p, Exit(proc[p], 1, "none", "Error: connect"))
    /\ UNCHANGED <<store, remote, reported, runs, call, db>>

(* The catch block of getStatistics: every figure is 0, and the command goes on. *)
StatsCaught(r) == [r EXCEPT !.stats = [NoStats EXCEPT !.caught = TRUE], !.pc = "close"]

(* const total = await this.collection.countDocuments() *)
StatsCountTotal(p) ==
    /\ proc[p].cmd = "stats" /\ proc[p].pc = "countTotal"
    /\ \E countFails \in BOOLEAN :
          IF countFails
          THEN Set(p, StatsCaught(proc[p]))
          ELSE Set(p, [proc[p] EXCEPT !.stats.total = CountAll(store), !.pc = "countSuccessful"])
    /\ UNCHANGED <<store, remote, reported, runs, call, db>>

(* const successful = await this.collection.countDocuments({ success: true }) *)
StatsCountSuccessful(p) ==
    /\ proc[p].cmd = "stats" /\ proc[p].pc = "countSuccessful"
    /\ \E countFails \in BOOLEAN :
          IF countFails
          THEN Set(p, StatsCaught(proc[p]))
          ELSE Set(p, [proc[p] EXCEPT !.stats.successful = CountSuccessful(store),
                                      !.quiet = (CountAll(store) = proc[p].stats.total),
                                      !.pc = "countFailed"])
    /\ UNCHANGED <<store, remote, reported, runs, call, db>>

(* const failed = await this.collection.countDocuments({ success: false }), and the *)
(* aggregations and counts after it, which give the other figures or raise.         *)
StatsCountFailed(p) ==
    /\ proc[p].cmd = "stats" /\ proc[p].pc = "countFailed"
    /\ \E countFails \in BOOLEAN :
          IF countFails
          THEN Set(p, StatsCaught(proc[p]))
          ELSE Set(p, [proc[p] EXCEPT !.stats.failed = CountFailed(store),
                                      !.quiet = (proc[p].quiet /\ CountAll(store) = proc[p].stats.total),
                                      !.pc = "close"])
    /\ UNCHANGED <<store, remote, reported, runs, call, db>>

(* The figures are printed; await database.close(). *)
StatsClose(p) ==
    /\ proc[p].cmd = "stats" /\ proc[p].pc = "close"
    /\ Set(p, [proc[p] EXCEPT !.connected = FALSE, !.pc = "done", !.exit = 0])
    /\ UNCHANGED <<store, remote, reported, runs, call, db>>

SearchQueries == {"twitter"}

SearchStart(p) ==
    /\ CanStart(p)
    /\ p \in StatsProcs
    /\ \E query \in SearchQueries :
          Set(p, [IdleProc EXCEPT !.cmd = "search", !.pc = "init", !.query = query])
    /\ runs' = runs + 1
    /\ UNCHANGED <<store, remote, reported, call, db>>

(* await database.initialize() *)
SearchInitialize(p) ==
    /\ proc[p].cmd = "search" /\ proc[p].pc = "init"
    /\ \E ok \in BOOLEAN :
          IF ok
          THEN Set(p, [proc[p] EXCEPT !.connected = TRUE, !.pc = "find"])
          ELSE Set(p, Exit(proc[p], 1, "none", "Error: connect"))
    /\ UNCHANGED <<store, remote, reported, runs, call, db>>

(* await database.searchPosts(options.query, limit) *)
SearchPosts(p) ==
    /\ proc[p].cmd = "search" /\ proc[p].pc = "find"
    /\ \E findFails \in BOOLEAN :
          Set(p, [proc[p] EXCEPT
                    !.found = {r.url : r \in searchPosts(store, proc[p].query, findFails)},
                    !.pc = "close"])
    /\ UNCHANGED <<store, remote, reported, runs, call, db>>

(* The posts are printed; await database.close(). *)
SearchClose(p) ==
    /\ proc[p].cmd = "search" /\ proc[p].pc = "close"
    /\ Set(p, [proc[p] EXCEPT !.connected = FALSE, !.pc = "done", !.exit = 0])
    /\ UNCHANGED <<store, remote, reported, runs, call, db>>

Next ==
    \E p \in Procs :
        \/ TweetStart(p) \/ TweetInitialize(p) \/ TweetVerify(p) \/ TweetCheck(p)
        \/ TweetProcessUrl(p) \/ TweetSaveDry(p) \/ TweetPost(p) \/ TweetSaveSuccessful(p)
        \/ TweetClose(p)
        \/ BatchStart(p) \/ BatchInitialize(p) \/ BatchVerify(p) \/ BatchCheck(p)
        \/ BatchProcessUrl(p) \/ BatchSaveDry(p) \/ BatchPost(p) \/ BatchSaveSuccessful(p)
        \/ BatchDelay(p) \/ BatchFinish(p)
        \/ StatsStart(p) \/ StatsInitialize(p) \/ StatsCountTotal(p) \/ StatsCountSuccessful(p)
        \/ StatsCountFailed(p) \/ StatsClose(p)
        \/ SearchStart(p) \/ SearchInitialize(p) \/ SearchPosts(p) \/ SearchClose(p)

Spec == Init /\ [][Next]_vars

(***************************************************************************)
(* The batch command alone, with every await of a started invocation       *)
(* settling: the store, the page fetch and the posting client answer (with *)
(* a value or an error) and the timer of the delay fires.                  *)
(***************************************************************************)
BatchStep(p) ==
    \/ BatchInitialize(p) \/ BatchVerify(p) \/ BatchCheck(p) \/ BatchProcessUrl(p)
    \/ BatchSaveDry(p) \/ BatchPost(p) \/ BatchSaveSuccessful(p) \/ BatchDelay(p)
    \/ BatchFinish(p)

BatchNext ==
    \E p \in BatchProcs :
        \/ BatchStart(p) \/ BatchInitialize(p) \/ BatchVerify(p) \/ BatchCheck(p)
        \/ BatchProcessUrl(p) \/ BatchSaveDry(p) \/ BatchPost(p) \/ BatchSaveSuccessful(p)
        \/ BatchDelay(p) \/ BatchFinish(p)

(* The invocation is at an await of the handler (or at the report after the loop). *)
Awaiting(p) == proc[p].cmd = "batch" /\ proc[p].pc \notin {"idle", "done"}

(* Weak fairness of the steps of a started invocation, WF_vars(BatchStep(p)), written *)
(* out as []<>~ENABLED <<A>>_vars \/ []<><<A>>_vars with Awaiting(p) for the enabling *)
(* condition: at each position of a started invocation exactly one step is possible,  *)
(* and it changes pc or idx.  Node.js runs the continuation of every settled promise  *)
(* and every expired timer, so a step that stays possible is taken.                   *)
BatchFairness ==
    \A p \in BatchProcs : []<>(~Awaiting(p)) \/ []<><<BatchStep(p)>>_vars

BatchSpec == Init /\ [][BatchNext]_vars /\ BatchFairness

(***************************************************************************)
(* One PostDatabase object and a caller that awaits each call it makes: an *)
(* operation is called when no initialize() or close() is in progress.     *)
(* Every call is recorded in call, with the fields (was) and the collection *)
(* (before) it found.                                                      *)
(***************************************************************************)
DbOperations ==
    {"isPostProcessed", "saveProcessedPost", "saveSuccessfulPost", "updateTweetInfo",
     "getProcessedPosts", "getProcessedPostsByPlatform", "getProcessedPostsByUsername",
     "getStatistics", "searchPosts", "deletePost"}

NOT_INITIALIZED == "Database not initialized"

(* collection.updateOne({ url }, { $set: { tweet: ... } }) *)
updateTweetInfo(coll, url, tweetId, tweetUrl) ==
    {IF r.url = url THEN [r EXCEPT !.tweet = [id |-> tweetId, url |-> tweetUrl]] ELSE r : r \in coll}

(* collection.deleteOne({ url }); url is unique in the collection. *)
deletePost(coll, url) == {r \in coll : r.url # url}

(* The collection after operation op on url has run past its guard. *)
Performed(coll, op, url, fault) ==
    LET post == ProcessedPost(processUrl(url, <<>>, "page"), FALSE) IN
    CASE op = "saveProcessedPost" -> saveProcessedPost(coll, post, fault).coll
      [] op = "saveSuccessfulPost" -> saveSuccessfulPost(coll, post, 1, TweetUrl(1), fault).coll
      [] op = "updateTweetInfo" -> IF fault # 0 THEN coll ELSE updateTweetInfo(coll, url, 1, TweetUrl(1))
      [] op = "deletePost" -> IF fault # 0 THEN coll ELSE deletePost(coll, url)
      [] OTHER -> coll

DatabaseInit ==
    /\ store = {}
    /\ remote = <<>>
    /\ reported = [u \in Urls |-> 0]
    /\ runs = 0
    /\ proc = [p \in Procs |-> IdleProc]
    /\ call = NoCall
    /\ db = NoDb

(* initialize(): this.client = new MongoClient(...); then await this.client.connect(). *)
DbInitialize ==
    /\ db.pc = "idle" /\ ~db.completed
    /\ db' = [db EXCEPT !.client = TRUE, !.pc = "connect"]
    /\ call' = [fn |-> "initialize", was |-> db, before |-> store, raised |-> ""]
    /\ UNCHANGED <<store, remote, reported, runs, proc>>

(* connect() settles: db and collection are assigned, or the catch block rethrows. *)
DbConnect ==
    /\ db.pc = "connect"
    /\ \E ok \in BOOLEAN :
          IF ok
          THEN /\ db' = [db EXCEPT !.collection = TRUE, !.pc = "createIndex"]
               /\ UNCHANGED call
          ELSE /\ db' = [db EXCEPT !.pc = "idle"]
               /\ call' = [call EXCEPT !.raised = "Error: connect"]
    /\ UNCHANGED <<store, remote, reported, runs, proc>>

(* The four createIndex calls settle: initialize() resolves, or the catch block *)
(* rethrows and leaves the fields as they are.                                  *)
DbCreateIndexes ==
    /\ db.pc = "createIndex"
    /\ \E ok \in BOOLEAN :
          IF ok
          THEN /\ db' = [db EXCEPT !.pc = "idle", !.completed = TRUE]
               /\ UNCHANGED call
          ELSE /\ db' = [db EXCEPT !.pc = "idle"]
               /\ call' = [call EXCEPT !.raised = "Error: createIndex"]
    /\ UNCHANGED <<store, remote, reported, runs, proc>>

(* close(): if (this.client) { await this.client.close(); the three fields = null }. *)
DbClose ==
    /\ db.pc = "idle"
    /\ \E closeFails \in BOOLEAN :
          IF ~db.client
          THEN /\ call' = [fn |-> "close", was |-> db, before |-> store, raised |-> ""]
               /\ UNCHANGED db
          ELSE IF closeFails
               THEN /\ call' = [fn |-> "close", was |-> db, before |-> store, raised |-> "Error: close"]
                    /\ UNCHANGED db
               ELSE /\ call' = [fn |-> "close", was |-> db, before |-> store, raised |-> ""]
                    /\ db' = NoDb
    /\ UNCHANGED <<store, remote, reported, runs, proc>>

(* One of the ten guarded operations: if (!this.collection) throw, else the operation. *)
DbCall ==
    /\ db.pc = "idle"
    /\ \E op \in DbOperations, url \in {UrlX, UrlSite}, fault \in InsertFaults :
          IF ~db.collection
          THEN /\ call' = [fn |-> op, was |-> db, before |-> store, raised |-> NOT_INITIALIZED]
               /\ UNCHANGED store
          ELSE /\ call' = [fn |-> op, was |-> db, before |-> store, raised |-> ""]
               /\ store' = Performed(store, op, url, fault)
    /\ UNCHANGED <<remote, reported, runs, proc, db>>

DatabaseNext == DbInitialize \/ DbConnect \/ DbCreateIndexes \/ DbClose \/ DbCall

DatabaseSpec == DatabaseInit /\ [][DatabaseNext]_vars

(***************************************************************************)
(* The PostProcessor's functions, and XAPIClient.postTweet, called one at a *)
(* time.  Each action is one call, with its arguments drawn from the sets  *)
(* below; call holds the arguments and what the call gave.                 *)
(***************************************************************************)
PlatformTags == {"twitter", "instagram", "youtube", "website", "article", "podcast"}

Handles == { <<"alice">>, <<"suremark_user">> }

DashboardUrls ==
    { <<"https://d.example">>, <<SURMARK_DASHBOARD_URL>>, <<"https://d.example/?a=", "$&", "b=1">> }

Overrides ==
    { <<>>, <<"Verified: ", PhUrl>>, <<PhUser, " ", PhUser, " ", PhUrl, " ", PhUrl>>, LongMessage }

(* processUrl as a call: what it throws ("": nothing) and the record it returns. *)
processUrlOutcome(url, suremarkUsername, fetch) ==
    IF ~isValidUrl(url)
    THEN [thrown |-> "INVALID_URL", postData |-> NoPostData]
    ELSE IF extractContent(url, detectPlatform(url), fetch).thrown
         THEN [thrown |-> "extraction", postData |-> NoPostData]
         ELSE [thrown |-> "", postData |-> processUrl(url, suremarkUsername, fetch)]

ProcessorInit ==
    /\ store = {}
    /\ remote = <<>>
    /\ reported = [u \in Urls |-> 0]
    /\ runs = 0
    /\ proc = [p \in Procs |-> IdleProc]
    /\ call = NoCall
    /\ db = NoDb

CallCompose ==
    /\ \E platform \in PlatformTags, username \in Handles, dashboardUrl \in DashboardUrls,
          customMessage \in Overrides :
          call' = [fn |-> "compose", platform |-> platform, username |-> username,
                   dashboardUrl |-> dashboardUrl, customMessage |-> customMessage,
                   result |-> generateVerificationMessage(platform, username, dashboardUrl,
                                                          customMessage)]
    /\ UNCHANGED <<store, remote, reported, runs, proc, db>>

CallClassify ==
    /\ \E url \in {u \in ProcessorUrls : isValidUrl(u)} :
          call' = [fn |-> "classify", url |-> url, result |-> detectPlatform(url)]
    /\ UNCHANGED <<store, remote, reported, runs, proc, db>>

CallExtract ==
    /\ \E url \in ProcessorUrls, platform \in PlatformTags, fetch \in ProcessorFetches :
          call' = [fn |-> "extract", url |-> url, platform |-> platform, fetch |-> fetch,
                   result |-> extractContent(url, platform, fetch)]
    /\ UNCHANGED <<store, remote, reported, runs, proc, db>>

CallProcessUrl ==
    /\ \E url \in ProcessorUrls, username \in Handles \cup {<<>>}, fetch \in ProcessorFetches :
          call' = [fn |-> "processUrl", url |-> url, username |-> username, fetch |-> fetch,
                   result |-> processUrlOutcome(url, username, fetch)]
    /\ UNCHANGED <<store, remote, reported, runs, proc, db>>

(* The texts and remote outcomes given to XAPIClient.postTweet called on its own. *)
ClientMessages == { <<"a text of 280 characters">>, LongMessage, <<"Verified: ", SURMARK_DASHBOARD_URL>> }

ClientOutcomes == RemoteOutcomes \cup {"403"}

CallPostTweet ==
    /\ \E message \in ClientMessages, outcome \in ClientOutcomes, tweetId \in {7, 8} :
          call' = [fn |-> "postTweet", message |-> message, outcome |-> outcome,
                   remoteCalled |-> CallsRemote(message),
                   result |-> postTweet(message, outcome, tweetId)]
    /\ UNCHANGED <<store, remote, reported, runs, proc, db>>

ProcessorNext == CallCompose \/ CallClassify \/ CallExtract \/ CallProcessUrl \/ CallPostTweet

ProcessorSpec == ProcessorInit /\ [][ProcessorNext]_vars


(***************************************************************************)
(* Properties.                                                             *)
(***************************************************************************)
SuccessRecords(url) == {r \in store : r.url = url /\ r.success = TRUE}

RecordsOf(url) == {r \in store : r.url = url}

(* C1: once a live process(u) has reported Posted, every later process(u) ends in   *)
(* AlreadyProcessed without calling postTweet, and no URL is reported posted twice. *)
C1_Idempotency ==
    /\ \A p \in Procs :
          proc[p].afterPosted => proc[p].outcome = "AlreadyProcessed" /\ proc[p].postCalls = 0
    /\ \A u \in Urls : reported[u] <= 1

(* C2: the collection never holds two documents with the same url, also when the    *)
(* store operations of two invocations interleave.                                  *)
C2_UniqueUrl == \A r1, r2 \in store : r1.url = r2.url => r1 = r2

(* Two invocations were past their insert for the same URL at once; one insert went *)
(* in and the other was refused.                                                    *)
C2_Witness ==
    \E p, q \in Procs :
        /\ p # q
        /\ proc[p].pc = "close" /\ proc[q].pc = "close"
        /\ proc[p].cur = proc[q].cur
        /\ proc[p].wrote /\ proc[q].tried # "none" /\ ~proc[q].wrote

(* C3: when a live process(u) ends in Posted, the collection holds a success = true *)
(* document for u with the tweet id and url which that postTweet call returned.     *)
C3_PostedIsRecorded ==
    \A p \in Procs :
        proc[p].outcome = "Posted" =>
            \E r \in store :
                /\ r.url = proc[p].cur
                /\ r.success = TRUE
                /\ r.tweet = [id |-> proc[p].tweetId, url |-> TweetUrl(proc[p].tweetId)]

(* C4: every success = true document carries the id of a remote post made for its   *)
(* url, and the success insert is attempted only after postTweet has returned that  *)
(* id in the same run.                                                              *)
C4_SuccessMeansRemotePost ==
    /\ \A r \in store :
          r.success = TRUE => r.tweet.id \in 1..Len(remote) /\ remote[r.tweet.id] = r.url
    /\ \A p \in Procs :
          proc[p].tried = "success" =>
              /\ proc[p].postCalls = 1
              /\ proc[p].tweetId \in 1..Len(remote)
              /\ remote[proc[p].tweetId] = proc[p].cur

C4_Witness ==
    \E p \in Procs : \E r \in store :
        r.success = TRUE /\ r.url = proc[p].cur /\ proc[p].wrote /\ r.tweet.id = proc[p].tweetId

(* C5: only a success = true document blocks: AlreadyProcessed is reported only     *)
(* when one exists, and a live process(u) of a well-formed u that is not blocked    *)
(* calls postTweet, whatever success = false document exists for u.                 *)
C5_OnlySuccessBlocks ==
    \A p \in Procs :
        /\ proc[p].outcome = "AlreadyProcessed" => SuccessRecords(proc[p].cur) # {}
        /\ (~proc[p].dryRun /\ isValidUrl(proc[p].cur)
              /\ proc[p].outcome \notin {"none", "AlreadyProcessed"})
           => proc[p].postCalls = 1

(* A live run called postTweet for a URL whose document has success = false. *)
C5_Witness ==
    \E p \in Procs :
        /\ ~proc[p].dryRun /\ proc[p].postCalls = 1
        /\ \E r \in store : r.url = proc[p].cur /\ r.success = FALSE

NoWriteOutcomes == {"InputRejected", "AlreadyProcessed", "ExtractionIncomplete", "PostFailed"}

(* C6: the collection changes only in the step in which a process(u) ends in        *)
(* DryRunRecorded or Posted; a run of process(u) that ends in InputRejected,        *)
(* AlreadyProcessed, extraction-incomplete or PostFailed leaves it as it was.       *)
C6_WritesOnlyOnRecordedOutcomes ==
    /\ [](\A p \in Procs : proc[p].outcome \in NoWriteOutcomes => ~proc[p].wrote)
    /\ [][\A p \in Procs :
            (proc'[p] # proc[p] /\ store' # store) =>
                /\ proc[p].outcome = "none"
                /\ proc'[p].outcome \in {"DryRunRecorded", "Posted"}]_vars

C6_Witness ==
    \E p \in Procs :
        /\ proc[p].outcome = "PostFailed" /\ proc[p].postCalls = 1
        /\ ~proc[p].wrote /\ RecordsOf(proc[p].cur) = {}

(* C7: for an input that is not a well-formed URL, process ends in InputRejected    *)
(* and no store operation was made for that input before the rejection.             *)
C7_RejectedBeforeStoreAccess ==
    \A p \in Procs :
        /\ (~isValidUrl(proc[p].cur) /\ proc[p].cur # NoUrl /\ proc[p].outcome # "none")
              => proc[p].outcome = "InputRejected"
        /\ proc[p].outcome = "InputRejected" => ~proc[p].checked

(* C8: after the idempotency check has found u processed there is no extraction,    *)
(* no composition, no postTweet call and no insert for u; the tweet command exits   *)
(* with the duplicate-post error, the batch loop adds one to skipped only and turns *)
(* to the next URL.                                                                 *)
C8_DuplicateShortCircuits ==
    /\ [](\A p \in Procs :
            proc[p].outcome = "AlreadyProcessed" =>
                /\ ~proc[p].fetched /\ ~proc[p].composed /\ proc[p].postCalls = 0
                /\ proc[p].tried = "none" /\ ~proc[p].wrote
                /\ proc[p].pc \in {"done", "check", "finish"}
                /\ proc[p].cmd = "tweet" =>
                       proc[p].exit = 1 /\ proc[p].error = "DUPLICATE_POST")
    /\ [][\A p \in Procs :
            (proc[p].cmd = "batch" /\ proc[p].pc = "check"
               /\ proc'[p] # proc[p] /\ proc'[p].outcome = "AlreadyProcessed") =>
                /\ proc'[p].skipped = proc[p].skipped + 1
                /\ proc'[p].processed = proc[p].processed
                /\ proc'[p].failed = proc[p].failed
                /\ proc'[p].idx = proc[p].idx + 1
                /\ store' = store /\ remote' = remote]_vars

C8_Witness ==
    \E p \in Procs :
        /\ proc[p].cmd = "batch" /\ proc[p].outcome = "AlreadyProcessed"
        /\ proc[p].skipped = 1 /\ proc[p].pc = "check"
        /\ SuccessRecords(proc[p].cur) # {}


(* The message the handler of p composes for its current URL. *)
ExpectedMessage(p) ==
    generateVerificationMessage(
        detectPlatform(proc[p].cur),
        IF proc[p].username # <<>> THEN proc[p].username ELSE DefaultUsername,
        <<SURMARK_DASHBOARD_URL>>,
        proc[p].message)

C10_DryRunTwice ==
    /\ [](\A p \in Procs :
            proc[p].dryRun =>
                /\ proc[p].outcome # "DuplicateKeyError"
                /\ (isValidUrl(proc[p].cur) /\ proc[p].checked
                      /\ proc[p].outcome \notin {"none", "StoreError"})
                   => \/ /\ proc[p].outcome = "DryRunRecorded"
                         /\ Cardinality(RecordsOf(proc[p].cur)) = 1
                      \/ /\ proc[p].outcome = "AlreadyProcessed"
                         /\ SuccessRecords(proc[p].cur) # {})
    /\ [][\A p \in Procs :
            (proc'[p] # proc[p] /\ proc'[p].dryRun
               /\ proc[p].tried = "none" /\ proc'[p].tried = "dry"
               /\ RecordsOf(proc'[p].cur) # {}) =>
                /\ store' = store
                /\ proc'[p].outcome \in {"DryRunRecorded", "StoreError"}]_vars

(* A dry-run batch over the same URL twice has counted both as processed; the second *)
(* insert was refused and the first document is the only one.                        *)
C10_Witness ==
    \E p \in Procs :
        /\ proc[p].cmd = "batch" /\ proc[p].dryRun
        /\ Len(proc[p].urls) = 2 /\ proc[p].urls[1] = proc[p].urls[2]
        /\ proc[p].processed = 2 /\ proc[p].outcome = "DryRunRecorded" /\ ~proc[p].wrote
        /\ \E r \in store : RecordsOf(proc[p].cur) = {r} /\ r.success = FALSE

(* C11: when the query of the idempotency check raises, the error reaches the        *)
(* command layer: the run is in its store-error outcome, not on its way to the       *)
(* extractor and the posting client, and postTweet has not been called for the URL.  *)
C11_CheckErrorPropagates ==
    \A p \in Procs :
        proc[p].findError =>
            /\ proc[p].outcome = "StoreError"
            /\ proc[p].pc \notin {"extract", "saveDry", "post", "saveSuccess"}
            /\ proc[p].postCalls = 0

(* C12: when two invocations have run a live process(u) for the same u, the later    *)
(* one passing the check while the earlier was between its check and its insert,     *)
(* and both have attempted their insert, neither ends in a duplicate-key error, and  *)
(* unless an insert raised another error both have reported Posted and exactly one   *)
(* success = true document for u is stored.                                          *)
C12_RaceLeavesOneRecord ==
    \A p, q \in Procs :
        (/\ p # q /\ proc[q].raced
         /\ proc[p].cur = proc[q].cur
         /\ ~proc[p].dryRun /\ ~proc[q].dryRun
         /\ proc[p].tried = "success" /\ proc[q].tried = "success")
        => /\ proc[p].outcome # "DuplicateKeyError" /\ proc[q].outcome # "DuplicateKeyError"
           /\ (proc[p].outcome # "StoreError" /\ proc[q].outcome # "StoreError")
              => /\ proc[p].outcome = "Posted" /\ proc[q].outcome = "Posted"
                 /\ Cardinality(SuccessRecords(proc[q].cur)) = 1

BatchLoopPcs == {"check", "extract", "saveDry", "post", "saveSuccess", "delay"}

FailedOutcomes ==
    {"InputRejected", "ExtractionIncomplete", "PostFailed", "StoreError", "DuplicateKeyError"}

(* The batch run of p is the only invocation there has been. *)
OnlyRun(p) == runs = 1 /\ \A q \in Procs \ {p} : proc[q].pc = "idle"

(* C13: the batch loop visits the URLs of the list in input order and leaves the     *)
(* loop only after the last one: a malformed URL, a thrown error or a failed post    *)
(* adds one to failed, changes no other counter, and the loop goes on.  For the list *)
(* [UrlX, UrlBad, UrlSite], run alone on an empty collection with no failed post and *)
(* no store error, the run ends with processed = 2, failed = 1, skipped = 0 and      *)
(* documents for UrlX and UrlSite stored.                                            *)
C13_BatchIsolation ==
    /\ [](\A p \in Procs :
            proc[p].cmd = "batch" =>
                /\ proc[p].pc \in BatchLoopPcs =>
                       /\ proc[p].idx \in 1..Len(proc[p].urls)
                       /\ Len(proc[p].outcomes) = proc[p].idx - 1
                /\ proc[p].pc \in BatchLoopPcs \ {"check"} =>
                       proc[p].cur = proc[p].urls[proc[p].idx]
                /\ proc[p].pc = "finish" => Len(proc[p].outcomes) = Len(proc[p].urls)
                /\ (/\ proc[p].pc = "finish" /\ proc[p].urls = IsolationList /\ OnlyRun(p)
                    /\ \A i \in 1..3 : proc[p].outcomes[i] \notin {"PostFailed", "StoreError"}
                    /\ proc[p].dryRun \/ \A r \in store : r.success)
                   => /\ proc[p].processed = 2 /\ proc[p].failed = 1 /\ proc[p].skipped = 0
                      /\ proc[p].outcomes[2] = "InputRejected"
                      /\ \A u \in {UrlX, UrlSite} :
                            IF proc[p].dryRun THEN RecordsOf(u) # {} ELSE SuccessRecords(u) # {})
    /\ [][\A p \in Procs :
            (proc[p].cmd = "batch" /\ proc[p].pc \in BatchLoopPcs /\ proc'[p] # proc[p]) =>
                /\ proc'[p].pc \in BatchLoopPcs \cup {"finish"}
                /\ proc'[p].exit = -1
                /\ proc'[p].urls = proc[p].urls
                /\ proc'[p].pc = "finish" => proc[p].idx = Len(proc[p].urls)
                /\ (proc[p].pc # "check" /\ proc[p].outcome = "none"
                      /\ proc'[p].outcome \in FailedOutcomes)
                   => /\ proc'[p].failed = proc[p].failed + 1
                      /\ proc'[p].processed = proc[p].processed
                      /\ proc'[p].skipped = proc[p].skipped]_vars

C13_Witness ==
    \E p \in Procs :
        /\ proc[p].cmd = "batch" /\ proc[p].pc = "finish" /\ ~proc[p].dryRun
        /\ proc[p].urls = IsolationList /\ OnlyRun(p)
        /\ proc[p].outcomes = <<"Posted", "InputRejected", "Posted">>
        /\ proc[p].processed = 2 /\ proc[p].failed = 1
        /\ SuccessRecords(UrlX) # {} /\ SuccessRecords(UrlSite) # {}

CountOf(outs, S) == Cardinality({i \in 1..Len(outs) : outs[i] \in S})

(* The outcomes of the items whose counter has been updated. *)
Counted(p) ==
    IF proc[p].pc = "delay" THEN Append(proc[p].outcomes, proc[p].outcome) ELSE proc[p].outcomes

(* C14: in a batch run every URL the loop is done with has added one to exactly one  *)
(* counter: skipped when the check found a success = true document for it, processed *)
(* when it ended in Posted or DryRunRecorded, failed otherwise; after the loop       *)
(* processed + skipped + failed is the length of the list.                           *)
C14_CountersPartition ==
    /\ [](\A p \in Procs :
            (proc[p].cmd = "batch" /\ proc[p].pc \in BatchLoopPcs \cup {"finish"}) =>
                /\ proc[p].processed = CountOf(Counted(p), {"Posted", "DryRunRecorded"})
                /\ proc[p].skipped = CountOf(Counted(p), {"AlreadyProcessed"})
                /\ proc[p].failed = CountOf(Counted(p), FailedOutcomes)
                /\ proc[p].processed + proc[p].skipped + proc[p].failed = Len(Counted(p))
                /\ proc[p].pc = "finish" =>
                       proc[p].processed + proc[p].skipped + proc[p].failed = Len(proc[p].urls))
    /\ [](\A p \in Procs :
            (proc[p].cmd = "batch" /\ proc[p].pc = "done" /\ proc[p].exit = 0) =>
                proc[p].processed + proc[p].skipped + proc[p].failed = Len(proc[p].urls))
    /\ [][\A p \in Procs :
            (proc[p].cmd = "batch" /\ proc[p].pc = "check" /\ proc'[p] # proc[p]
               /\ proc'[p].skipped # proc[p].skipped) =>
                /\ proc'[p].skipped = proc[p].skipped + 1
                /\ SuccessRecords(proc'[p].cur) # {}
                /\ proc'[p].cur = proc[p].urls[proc[p].idx]]_vars

(* A batch of three has ended with one URL in each counter. *)
C14_Witness ==
    \E p \in Procs :
        /\ proc[p].cmd = "batch" /\ proc[p].pc = "finish" /\ Len(proc[p].urls) = 3
        /\ proc[p].processed = 1 /\ proc[p].skipped = 1 /\ proc[p].failed = 1
        /\ "PostFailed" \notin {proc[p].outcomes[i] : i \in 1..3}

(* C15: the batch loop sleeps only in a live run and only when a further URL of the  *)
(* list is still to come.                                                            *)
C15_NoDelayAfterLastItem ==
    \A p \in Procs :
        proc[p].pc = "delay" => ~proc[p].dryRun /\ proc[p].idx < Len(proc[p].urls)

(* C16: in a batch run only the URL at idx is in flight: its steps are taken while   *)
(* its outcome is open, postTweet is called at most once for it, the loop turns to   *)
(* the next URL only when the outcome is settled, and when a sleep is due the loop   *)
(* waits in it before it turns to the next URL.                                      *)
C16_OneUrlInFlight ==
    /\ [](\A p \in Procs :
            proc[p].cmd = "batch" =>
                /\ proc[p].pc \in {"extract", "saveDry", "post", "saveSuccess"} =>
                       /\ proc[p].outcome = "none"
                       /\ proc[p].cur = proc[p].urls[proc[p].idx]
                       /\ proc[p].postCalls = IF proc[p].pc = "saveSuccess" THEN 1 ELSE 0
                /\ (proc[p].pc \in {"check", "finish"} /\ proc[p].idx > 1) =>
                       /\ proc[p].outcome # "none"
                       /\ proc[p].cur = proc[p].urls[proc[p].idx - 1]
                /\ proc[p].pc = "delay" => proc[p].outcome \in {"Posted", "PostFailed"})
    /\ [][\A p \in Procs :
            (proc[p].cmd = "batch" /\ proc[p].pc \in BatchLoopPcs /\ proc'[p] # proc[p]) =>
                /\ proc'[p].idx \in {proc[p].idx, proc[p].idx + 1}
                /\ proc'[p].idx = proc[p].idx + 1 =>
                       /\ proc'[p].outcome # "none"
                       /\ proc'[p].pc \in {"check", "finish"}
                /\ proc'[p].postCalls > proc[p].postCalls =>
                       /\ proc[p].pc = "post" /\ proc[p].postCalls = 0
                /\ (proc[p].pc \in {"post", "saveSuccess"}
                      /\ proc'[p].outcome \in {"Posted", "PostFailed"}
                      /\ proc'[p].processed < Len(proc[p].urls))
                   => proc'[p].pc = "delay" /\ proc'[p].idx = proc[p].idx
                /\ proc[p].pc = "delay" =>
                       proc'[p].idx = proc[p].idx + 1 /\ store' = store /\ remote' = remote]_vars

(* The second URL of a live batch is with the posting client after the first was     *)
(* posted and the sleep that followed it has elapsed.                                *)
C16_Witness ==
    \E p \in Procs :
        /\ proc[p].cmd = "batch" /\ ~proc[p].dryRun /\ proc[p].pc = "post"
        /\ proc[p].idx = 2 /\ proc[p].outcomes = <<"Posted">> /\ proc[p].processed = 1

Occurrences(text, token) == Cardinality({i \in 1..Len(text) : text[i] = token})

(* The template the configuration holds for a tag, the default one when it holds none. *)
TemplateFor(platform) ==
    CASE platform = "twitter" -> PlatformTemplates.twitter
      [] platform = "instagram" -> PlatformTemplates.instagram
      [] platform = "youtube" -> PlatformTemplates.youtube
      [] platform = "website" -> PlatformTemplates.website
      [] platform = "article" -> PlatformTemplates.article
      [] OTHER -> MESSAGE_TEMPLATES_DEFAULT

(* C17: for every platform tag, the message composed with no override for the user   *)
(* alice and the link https://d.example holds neither placeholder, and holds "@alice"*)
(* once and the link once, each where the template has its placeholder.              *)
C17_TemplateSubstitution ==
    (/\ call.fn = "compose" /\ call.customMessage = <<>>
     /\ call.username = <<"alice">> /\ call.dashboardUrl = <<"https://d.example">>)
    => LET template == TemplateFor(call.platform)
           i == CHOOSE k \in 1..Len(template) : template[k] = PhUser
           j == CHOOSE k \in 1..Len(template) : template[k] = PhUrl
       IN  /\ Occurrences(template, PhUser) = 1 /\ Occurrences(template, PhUrl) = 1
           /\ Occurrences(call.result, PhUser) = 0
           /\ Occurrences(call.result, PhUrl) = 0
           /\ Occurrences(call.result, "alice") = 1
           /\ Occurrences(call.result, "https://d.example") = 1
           /\ i < j
           /\ call.result = SubSeq(template, 1, i - 1) \o <<"@", "alice">>
                            \o SubSeq(template, i + 1, j - 1) \o <<"https://d.example">>
                            \o SubSeq(template, j + 1, Len(template))

C17_Witness ==
    /\ call.fn = "compose" /\ call.customMessage = <<>> /\ call.platform = "instagram"
    /\ call.username = <<"alice">> /\ call.dashboardUrl = <<"https://d.example">>
    /\ call.result = <<"(camera) This Instagram post is verified by ", "@", "alice",
                       " using SureMark Digital.\nCheck more verified content: ",
                       "https://d.example">>

(* The text in which the first occurrence of each placeholder, if any, is replaced   *)
(* by its value and every other token is kept.                                       *)
RECURSIVE Substituted(_, _, _, _, _, _)
Substituted(text, k, iUser, iUrl, handle, link) ==
    IF k > Len(text) THEN <<>>
    ELSE (IF k = iUser THEN <<"@">> \o handle
          ELSE IF k = iUrl THEN link
          ELSE <<text[k]>>)
         \o Substituted(text, k + 1, iUser, iUrl, handle, link)

(* C18: the message composed is the override when one is given, else the template of *)
(* the platform tag, else the default template, with the first occurrence of the     *)
(* handle placeholder replaced by "@" and the handle, the first occurrence of the    *)
(* link placeholder replaced by the dashboard link, and all the rest unchanged.      *)
C18_ComposeSelectsAndSubstitutes ==
    call.fn = "compose" =>
        LET text == IF call.customMessage # <<>> THEN call.customMessage
                    ELSE TemplateFor(call.platform)
        IN  call.result = Substituted(text, 1, IndexOf(text, PhUser) + 1, IndexOf(text, PhUrl) + 1,
                                      call.username, call.dashboardUrl)

(* The domains of the table in its order, with their tags. *)
DomainTable ==
    << <<TwitterCom, "twitter">>, <<XCom, "twitter">>, <<InstagramCom, "instagram">>,
       <<YoutubeCom, "youtube">>, <<YoutuBe, "youtube">> >>

IsSubstring(d, s) == \E i \in 1..(Len(s) - Len(d) + 1) : \A k \in 1..Len(d) : s[i + k - 1] = d[k]

Placeholder(platform) ==
    CASE platform = "instagram" -> [title |-> <<"Instagram Post">>, content |-> <<"Content from Instagram">>]
      [] platform = "youtube" -> [title |-> <<"YouTube Video">>, content |-> <<"Content from YouTube">>]
      [] OTHER -> [title |-> <<"Website Content">>, content |-> <<"Content from website">>]

(* C20: for every platform tag and every URL, extractContent returns when the page   *)
(* fetch fails: for a strategy that fetches, the result is the strategy's placeholder*)
(* title and content with a timestamp; and processUrl then returns the record of a   *)
(* well-formed URL with its platform and URL set, so that the handler composes.      *)
C20_ExtractionFailSoft ==
    /\ (call.fn = "extract" /\ call.fetch = "fails") =>
          /\ ~call.result.thrown
          /\ call.result.timestamp = "now"
          /\ call.platform # "twitter" =>
                /\ call.result.title = Placeholder(call.platform).title
                /\ call.result.content = Placeholder(call.platform).content
          /\ call.platform = "twitter" => call.result.title = <<"X/Twitter Post">>
    /\ (call.fn = "processUrl" /\ call.fetch = "fails" /\ isValidUrl(call.url)) =>
          /\ call.result.thrown = ""
          /\ call.result.postData.url = call.url
          /\ call.result.postData.platform \in {"twitter", "instagram", "youtube", "website"}
          /\ call.result.postData.timestamp = "now"
          /\ call.result.postData.platform # "twitter" =>
                call.result.postData.title = Placeholder(call.result.postData.platform).title

C20_Witness ==
    /\ call.fn = "processUrl" /\ call.fetch = "fails" /\ call.url = UrlSite
    /\ call.result.thrown = ""
    /\ call.result.postData.title = <<"Website Content">>
    /\ call.result.postData.content = <<"Content from website">>

(* C21: for every extraction strategy and every fetched page, the title of the      *)
(* returned record has at most 100 characters and its content at most 1000.         *)
C21_ExtractedWithinLimits ==
    (call.fn = "extract" /\ ~call.result.thrown) =>
        /\ TextLength(call.result.title) <= DEFAULT_TITLE_LENGTH
        /\ TextLength(call.result.content) <= MAX_CONTENT_LENGTH

(* The segment directly after the first segment equal to "status"; "" when the path *)
(* has no segment "status" or nothing after it.                                      *)
SegmentAfterStatus(pathParts) ==
    IF \E i \in 1..(Len(pathParts) - 1) :
          pathParts[i] = "status" /\ \A j \in 1..(i - 1) : pathParts[j] # "status"
    THEN pathParts[1 + CHOOSE i \in 1..(Len(pathParts) - 1) :
                       pathParts[i] = "status" /\ \A j \in 1..(i - 1) : pathParts[j] # "status"]
    ELSE ""

(* C22: for the tag twitter, extractContent returns without a page fetch, whatever  *)
(* the fetch would give: with a non-empty path segment directly after "status" the   *)
(* content embeds that segment, and otherwise the record is the generic placeholder  *)
(* of X/Twitter.                                                                     *)
C22_TwitterExtraction ==
    (call.fn = "extract" /\ call.platform = "twitter") =>
        LET segment == SegmentAfterStatus(ParseUrl(call.url).pathParts)
        IN  /\ ~call.result.thrown
            /\ ~Fetches(call.platform)
            /\ call.result = extractContent(call.url, call.platform, "fails")
            /\ call.result = extractContent(call.url, call.platform, "page")
            /\ call.result.title = <<"X/Twitter Post">>
            /\ call.result.timestamp = "now"
            /\ segment # "" =>
                  call.result.content = <<"Post from X/Twitter (ID: ", segment, ")">>
            /\ segment = "" =>
                  call.result.content = <<"Verified content from X/Twitter">>

C22_Witness ==
    /\ call.fn = "extract" /\ call.platform = "twitter" /\ call.url = UrlExample
    /\ call.fetch = "fails"
    /\ call.result.content = <<"Post from X/Twitter (ID: ", "42", ")">>

C22_WitnessPlaceholder ==
    /\ call.fn = "extract" /\ call.platform = "twitter" /\ call.url = UrlStatusEmpty
    /\ call.result.content = <<"Verified content from X/Twitter">>

(* The two parts of an error text that postTweet builds from a remote message. *)
ErrorParts(error) ==
    CASE error = "X API error: Forbidden" -> <<"X API error: ", "Forbidden">>
      [] error = "X API error: remote message" -> <<"X API error: ", "remote message">>
      [] error = "X API error: Too Many Requests" -> <<"X API error: ", "Too Many Requests">>
      [] error = "X API error: No response data received from X API" ->
            <<"X API error: ", "No response data received from X API">>
      [] OTHER -> <<"", error>>

(* What C24 says of every postTweet call but the text of the error of the failures  *)
(* that are not rate limits: a result is returned; code 429 gives the rate-limit     *)
(* error with retry_after 900; a success carries the tweet's id and URL.             *)
PostTweetResultShape ==
    /\ call.result.success \in BOOLEAN
    /\ (call.remoteCalled /\ call.outcome = "429") =>
          /\ ~call.result.success
          /\ call.result.error = "RATE_LIMIT"
          /\ call.result.retry_after = 900
    /\ call.result.success <=> (call.remoteCalled /\ call.outcome = "data")
    /\ call.result.success =>
          /\ call.result.tweet_id # NoResult.tweet_id
          /\ call.result.tweet_url = <<"https://twitter.com/user/status/", call.result.tweet_id>>
    /\ ~call.result.success => call.result.error # ""

(* C24 as stated: postTweet never throws; a remote error with code 429 gives a      *)
(* failure with the rate-limit error and retry_after = 900; every other remote       *)
(* failure gives a failure whose error is the remote error message itself; a success *)
(* carries both the tweet's id and its URL.                                          *)
C24_ErrorIsRemoteMessage ==
    call.fn = "postTweet" =>
        /\ PostTweetResultShape
        /\ (call.remoteCalled /\ call.outcome \notin {"data", "429"}) =>
              /\ ~call.result.success
              /\ call.result.error = RemoteError(call.outcome).message

(* C24 amended: as above, but the error of every other remote failure is the text   *)
(* "X API error: " followed by the remote error message unchanged.                   *)
C24_ErrorCarriesRemoteMessage ==
    call.fn = "postTweet" =>
        /\ PostTweetResultShape
        /\ (call.remoteCalled /\ call.outcome \notin {"data", "429"}) =>
              /\ ~call.result.success
              /\ call.result.retry_after = 0
              /\ ErrorParts(call.result.error) = <<"X API error: ", RemoteError(call.outcome).message>>

C24_Witness ==
    /\ call.fn = "postTweet" /\ call.outcome = "403" /\ call.remoteCalled
    /\ call.result.error = "X API error: Forbidden"

C24_WitnessRateLimit ==
    /\ call.fn = "postTweet" /\ call.outcome = "429" /\ call.remoteCalled
    /\ call.result.error = "RATE_LIMIT" /\ call.result.retry_after = 900

(* C23: a postTweet call with a text longer than MAX_TWEET_LENGTH returns the        *)
(* failure TWEET_TOO_LONG and client.v2.tweet is not called; the live run in which   *)
(* it happens ends in PostFailed with exit code 1, and the collection is not written.*)
C23_TooLongNotSent ==
    /\ [](\A p \in Procs :
            proc[p].error = "TWEET_TOO_LONG" =>
                /\ proc[p].pc = "done" /\ proc[p].exit = 1
                /\ ~proc[p].dryRun
                /\ proc[p].outcome = "PostFailed"
                /\ proc[p].postCalls = 1 /\ proc[p].remoteCalls = 0
                /\ proc[p].tweetId = 0
                /\ proc[p].tried = "none" /\ ~proc[p].wrote)
    /\ [][\A p \in Procs :
            (/\ proc[p].pc = "post" /\ proc'[p] # proc[p]
             /\ MsgLen(Message(proc[p])) > MAX_TWEET_LENGTH) =>
                /\ proc'[p].error = "TWEET_TOO_LONG"
                /\ proc'[p].remoteCalls = 0
                /\ remote' = remote
                /\ store' = store
                /\ reported' = reported]_vars

C23_Witness ==
    \E p \in Procs :
        /\ proc[p].cmd = "tweet" /\ proc[p].message = LongMessage
        /\ proc[p].error = "TWEET_TOO_LONG" /\ proc[p].outcome = "PostFailed"
        /\ proc[p].postCalls = 1

(* The invocation has not touched the collection or the posting client. *)
NothingAttempted(r) ==
    /\ r.idx = 0 /\ r.outcomes = <<>> /\ r.cur = NoUrl
    /\ ~r.checked /\ ~r.fetched /\ ~r.composed
    /\ r.postCalls = 0 /\ r.remoteCalls = 0
    /\ r.tried = "none" /\ ~r.wrote

(* C25: in a tweet or batch invocation postTweet is called only after               *)
(* validateCredentials() and verifyCredentials() have returned true in that          *)
(* invocation; when either returns false the invocation exits with code 1, and it   *)
(* has made no posting attempt and no store write.                                   *)
C25_CredentialsBeforePosting ==
    /\ [](\A p \in Procs :
            /\ (proc[p].postCalls > 0 \/ proc[p].remoteCalls > 0 \/ proc[p].tried # "none"
                    \/ proc[p].pc \in {"post", "saveSuccess", "saveDry"}) =>
                  (proc[p].configured /\ proc[p].verified)
            /\ proc[p].verified => proc[p].configured
            /\ (proc[p].cmd \in {"tweet", "batch"} /\ ~proc[p].configured) =>
                  /\ proc[p].pc = "done" /\ proc[p].exit = 1
                  /\ proc[p].error = "MISSING_CREDENTIALS"
                  /\ NothingAttempted(proc[p])
            /\ proc[p].error = "API_ERROR" =>
                  /\ proc[p].pc = "done" /\ proc[p].exit = 1
                  /\ ~proc[p].verified
                  /\ NothingAttempted(proc[p]))
    /\ [][\A p \in Procs :
            (proc'[p] # proc[p] /\ proc'[p].error \in {"MISSING_CREDENTIALS", "API_ERROR"}) =>
                (store' = store /\ remote' = remote /\ reported' = reported)]_vars

C25_Witness ==
    \E p \in Procs :
        /\ proc[p].cmd = "batch" /\ proc[p].error = "API_ERROR" /\ proc[p].exit = 1
        /\ proc[p].configured /\ ~proc[p].verified
        /\ \E q \in Procs \ {p} : proc[q].postCalls > 0 /\ proc[q].verified

(* C26: whenever the store connection was opened, it is closed before the process   *)
(* exits, on every terminal outcome.                                                 *)
C26_ClosedBeforeExit ==
    \A p \in Procs : proc[p].pc = "done" => ~proc[p].connected

(* The exits that C27 gives code 1: missing or rejected credentials, a batch file    *)
(* without URLs, and an error that reaches the command layer.                        *)
ErrorExit(r) ==
    \/ r.error \in {"MISSING_CREDENTIALS", "API_ERROR", "No valid URLs found in file",
                    "Error: connect", "Error: store"}
    \/ /\ r.cmd = "tweet"
       /\ r.outcome \in {"InputRejected", "ExtractionIncomplete", "PostFailed", "StoreError"}

(* C27: an invocation exits with code 1 exactly when credentials are missing or an  *)
(* error reaches the command layer; in every other case, AlreadyProcessed in the     *)
(* tweet command and a completed batch with failed items among them, with code 0.    *)
C27_ExitCodes ==
    \A p \in Procs :
        proc[p].pc = "done" =>
            /\ proc[p].exit \in {0, 1}
            /\ proc[p].exit = 1 <=> ErrorExit(proc[p])

(* C28: no tweet, batch, stats or search run updates or deletes a stored record:    *)
(* a document that is in the collection stays in it with every field as it was, and  *)
(* it stays the only document of its URL, whatever is attempted on that URL later.   *)
C28_StoredRecordsUnchanged ==
    [][\A d \in store :
          /\ d \in store'
          /\ {r \in store' : r.url = d.url} = {r \in store : r.url = d.url}]_vars

C28_Witness ==
    /\ \E p \in Procs :
          /\ proc[p].cmd = "tweet" /\ proc[p].tried = "success" /\ ~proc[p].wrote
          /\ proc[p].tweetId # 0
          /\ \E d \in store : d.url = proc[p].cur /\ d.success = FALSE
    /\ \E q \in Procs : proc[q].cmd \in {"stats", "search"} /\ proc[q].pc = "done" /\ proc[q].exit = 0

(* C29: a post attempt that has failed while posting, or whose URL was rejected, is *)
(* counted in the failed figure of a stats run that starts afterwards.               *)
C29_FailedAttemptsCounted ==
    \A p \in Procs :
        (/\ proc[p].cmd = "stats" /\ proc[p].pc \in {"close", "done"}
         /\ proc[p].connected \/ proc[p].exit = 0
         /\ ~proc[p].stats.caught) =>
            proc[p].stats.failed >= proc[p].failedBefore

(* C30: in every collection that tweet and batch runs reach, each document has      *)
(* success true or false, so the three counts of getStatistics add up; and a stats   *)
(* run reports total = successful + failed of the collection it counted.             *)
C30_FiguresAddUp ==
    /\ \A d \in store : d.success \in BOOLEAN
    /\ CountAll(store) = CountSuccessful(store) + CountFailed(store)
    /\ \A p \in Procs :
          (/\ proc[p].cmd = "stats" /\ proc[p].pc \in {"close", "done"}
           /\ proc[p].quiet \/ proc[p].stats.caught) =>
              proc[p].stats.total = proc[p].stats.successful + proc[p].stats.failed

C30_Witness ==
    \E p \in Procs :
        /\ proc[p].cmd = "stats" /\ proc[p].pc = "done" /\ proc[p].exit = 0
        /\ proc[p].quiet /\ ~proc[p].stats.caught
        /\ proc[p].stats.total = 2 /\ proc[p].stats.successful = 1 /\ proc[p].stats.failed = 1

(* C31: when postTweet reports a rate-limit failure for a post, the invocation      *)
(* retries that post after backing off: it does not end, nor leave the URL, with one *)
(* call of postTweet whose result was the rate-limit error.                          *)
C31_RateLimitRetried ==
    \A p \in Procs :
        /\ (proc[p].pc = "done" /\ proc[p].error = "RATE_LIMIT") => proc[p].postCalls >= 2
        /\ (proc[p].pc = "delay" /\ proc[p].result.error = "RATE_LIMIT") => proc[p].postCalls >= 2

(* C32: the handler checks the length of the composed message before it hands it to *)
(* the posting client, so whenever tweet or batch is at the call of postTweet the    *)
(* message has at most MAX_TWEET_LENGTH characters.                                  *)
C32_LengthCheckedBeforePosting ==
    \A p \in Procs :
        proc[p].pc = "post" => MsgLen(Message(proc[p])) <= MAX_TWEET_LENGTH

(* The URL that the idempotency check of the invocation is about to be made for. *)
UrlToCheck(r) == IF r.cmd = "tweet" THEN r.urls[1] ELSE r.urls[r.idx]

HasDryRecord(coll, url) == \E d \in coll : d.url = url /\ d.success = FALSE

C35_PostedButNotRecorded ==
    /\ [][\A p \in Procs :
            (proc[p].pc = "saveSuccess" /\ proc'[p] # proc[p]) =>
                /\ proc'[p].outcome = "StoreError" =>
                      /\ store' = store /\ reported' = reported
                      /\ proc[p].tweetId # 0
                      /\ \E i \in 1..Len(remote) : remote[i] = proc[p].cur
                      /\ proc[p].cmd = "tweet" =>
                            /\ proc'[p].pc = "done" /\ proc'[p].exit = 1
                            /\ proc'[p].error = "Error: store"
                      /\ proc[p].cmd = "batch" =>
                            /\ proc'[p].failed = proc[p].failed + 1
                            /\ proc'[p].processed = proc[p].processed
                /\ (store' = store /\ \A d \in store : d.url # proc[p].cur) =>
                      proc'[p].outcome = "StoreError"]_vars
    /\ [][\A p \in Procs :
            (/\ proc[p].cmd \in {"tweet", "batch"} /\ proc'[p] # proc[p] /\ ~proc[p].dryRun
             /\ proc[p].pc \in {"check", "extract"}
             /\ isValidUrl(IF proc[p].pc = "check" THEN UrlToCheck(proc[p]) ELSE proc[p].cur)
             /\ FindSuccessful(store, IF proc[p].pc = "check" THEN UrlToCheck(proc[p])
                                      ELSE proc[p].cur) = {}) =>
                proc'[p].pc = (IF proc[p].pc = "check" THEN "extract" ELSE "post")]_vars

C35_Witness ==
    \E u \in Urls :
        /\ Cardinality({i \in 1..Len(remote) : remote[i] = u}) = 2
        /\ \A d \in store : d.url # u
        /\ \E p \in Procs : proc[p].cur = u /\ proc[p].outcome = "StoreError" /\ proc[p].tried = "success"

(* C36: a dry run makes no length check: with a composed message longer than        *)
(* MAX_TWEET_LENGTH the dry run goes on to its save, ends in DryRunRecorded and a    *)
(* document for the URL is stored, while the live run of the same input ends in      *)
(* PostFailed with TWEET_TOO_LONG and stores nothing.                                *)
C36_DryRunUnmeasured ==
    /\ [](\A p \in Procs :
            (proc[p].cmd = "tweet" /\ proc[p].message = LongMessage) =>
                /\ (proc[p].dryRun /\ proc[p].tried = "dry" /\ proc[p].outcome # "StoreError") =>
                      /\ proc[p].outcome = "DryRunRecorded"
                      /\ proc[p].postCalls = 0
                      /\ MsgLen(proc[p].printed) > MAX_TWEET_LENGTH
                      /\ \E d \in store : d.url = proc[p].cur
                /\ (~proc[p].dryRun /\ proc[p].postCalls > 0) =>
                      /\ proc[p].outcome = "PostFailed" /\ proc[p].error = "TWEET_TOO_LONG"
                      /\ proc[p].tried = "none" /\ ~proc[p].wrote)
    /\ [][\A p \in Procs :
            (/\ proc[p].cmd = "tweet" /\ proc[p].pc = "extract" /\ proc'[p] # proc[p]
             /\ isValidUrl(proc[p].cur)) =>
                proc'[p].pc = (IF proc[p].dryRun THEN "saveDry" ELSE "post")]_vars

C36_Witness ==
    \E p \in Procs :
        /\ proc[p].cmd = "tweet" /\ proc[p].dryRun /\ proc[p].message = LongMessage
        /\ proc[p].outcome = "DryRunRecorded" /\ proc[p].wrote
        /\ MsgLen(proc[p].printed) > MAX_TWEET_LENGTH
        /\ \E d \in store : d.url = proc[p].cur /\ d.success = FALSE

(* The tags detectPlatform can return. *)
ClassifierTags == {"twitter", "instagram", "youtube", "website"}

(* A template with both placeholders replaced, as the two replace calls leave it. *)
Filled(template, username, dashboardUrl) ==
    ReplaceFirst(ReplaceFirst(template, PhUser, AtUser(username)), PhUrl, dashboardUrl)

(* C37: every tag the classifier returns is twitter, instagram, youtube or website  *)
(* and has a platform-specific template, so the message composed without an         *)
(* override for a classified URL is that platform's template with its placeholders  *)
(* replaced, never the default one, and is never empty.                             *)
C37_ClassifiedPlatformHasTemplate ==
    /\ call.fn = "classify" =>
          call.result \in ClassifierTags /\ call.result \in DOMAIN PlatformTemplates
    /\ (call.fn = "processUrl" /\ call.result.thrown = "") =>
          LET platform == call.result.postData.platform IN
          /\ platform \in ClassifierTags /\ platform \in DOMAIN PlatformTemplates
          /\ \A username \in Handles, dashboardUrl \in DashboardUrls :
                LET message == generateVerificationMessage(platform, username, dashboardUrl, <<>>) IN
                /\ message = Filled(PlatformTemplates[platform], username, dashboardUrl)
                /\ message # <<>>
                /\ PlatformTemplates[platform] # MESSAGE_TEMPLATES_DEFAULT =>
                      message # Filled(MESSAGE_TEMPLATES_DEFAULT, username, dashboardUrl)
    /\ (call.fn = "compose" /\ call.platform \in ClassifierTags /\ call.customMessage = <<>>) =>
          /\ call.result = Filled(PlatformTemplates[call.platform], call.username, call.dashboardUrl)
          /\ call.result # <<>>

C37_Witness ==
    /\ call.fn = "processUrl" /\ call.url = UrlYoutuBe /\ call.result.thrown = ""
    /\ call.result.postData.platform = "youtube"
    /\ generateVerificationMessage("youtube", <<"alice">>, <<SURMARK_DASHBOARD_URL>>, <<>>)
           = <<"(video) This YouTube video is verified by ", "@", "alice",
               " using SureMark Digital.\nCheck more verified content: ", SURMARK_DASHBOARD_URL>>

C33_OperationsNeedInitialize ==
    /\ (call.fn \in DbOperations /\ ~call.was.completed) =>
          (call.raised = NOT_INITIALIZED /\ store = call.before)
    /\ (call.fn = "close" /\ ~call.was.client) => (call.raised = "" /\ db = call.was)
    /\ (call.fn = "close" /\ call.raised = "") => db = NoDb

====
